---- MODULE Spec2Model ----
(***************************************************************************)
(* Admission-control agent (berghain): the admission policies, the        *)
(* session controller loop (run_game), the event log it writes, and the   *)
(* log reconstructor / replay priming of resume_game.                     *)
(***************************************************************************)
EXTENDS Integers, Sequences, FiniteSets, TLC

(* ------------------------------ bounds -------------------------------- *)

\* Largest minimum count of a constraint.
MaxMin == 2
\* Largest venue capacity given to a policy driven directly.
MaxCapacity == 5
\* Number of arrivals a directly driven policy is shown.
MaxArrivals == 3

\* The attributes a candidate may carry; constraints name a subset of them.
Attr == {"A", "B"}

\* An attribute vector is modelled by the set of attributes that are true in
\* it: the code reads it with attributes.get(a, False) and `if v`.
AttrVectors == SUBSET Attr

\* json null / Python None for an integer field.
Null == -1

(* ------------------------------ helpers ------------------------------- *)

Max(a, b) == IF a >= b THEN a ELSE b

Min(a, b) == IF a <= b THEN a ELSE b

RECURSIVE SumOver(_, _)
SumOver(f, S) ==
    IF S = {} THEN 0
    ELSE LET x == CHOOSE y \in S : TRUE
         IN  f[x] + SumOver(f, S \ {x})

\* sum(d.values()) of a dict
SumValues(f) == SumOver(f, DOMAIN f)

\* Every constraint mapping: a minimum count for each attribute of a subset.
ConstraintMaps == UNION {[D -> 1..MaxMin] : D \in SUBSET Attr}

\* An empty accepted_attribute_counts dict: every lookup is .get(a, 0).
NoCounts == [a \in Attr |-> 0]

(* ----------------------- QuotaReservePolicy --------------------------- *)

QuotaReservePolicy(min_counts, capacity) ==
    [name |-> "reserve",
     min_counts |-> min_counts,
     capacity |-> capacity,
     accepted_attribute_counts |-> NoCounts]

remaining_needed_abs(p) ==
    [a \in DOMAIN p.min_counts |->
        IF p.min_counts[a] >= p.accepted_attribute_counts[a]
        THEN p.min_counts[a] - p.accepted_attribute_counts[a]
        ELSE p.accepted_attribute_counts[a] - p.min_counts[a]]

remaining_needed_unclamped(p) ==
    [a \in DOMAIN p.min_counts |->
        p.min_counts[a] - p.accepted_attribute_counts[a]]

\* _remaining_needed, the same in all four policy classes.
remaining_needed(p) ==
    [a \in DOMAIN p.min_counts |->
        Max(0, p.min_counts[a] - p.accepted_attribute_counts[a])]

update_on_accept_inverted(p, attributes) ==
    [p EXCEPT !.accepted_attribute_counts =
        [a \in Attr |-> IF a \notin attributes THEN @[a] + 1 ELSE @[a]]]

update_on_accept_every_key(p, attributes) ==
    [p EXCEPT !.accepted_attribute_counts = [a \in Attr |-> @[a] + 1]]

\* update_on_accept, the same in all four policy classes.
update_on_accept(p, attributes) ==
    [p EXCEPT !.accepted_attribute_counts =
        [a \in Attr |-> IF a \in attributes THEN @[a] + 1 ELSE @[a]]]

\* helpful = any(attributes.get(a) and remaining_needed[a] > 0 for a in min_counts)
IsHelpful(p, attributes) ==
    \E a \in DOMAIN p.min_counts :
        a \in attributes /\ remaining_needed(p)[a] > 0

quota_decide_off_by_one(p, admitted_count, attributes) ==
    LET R == Max(0, p.capacity - admitted_count)
        S == SumValues(remaining_needed(p))
    IN  IF IsHelpful(p, attributes) THEN TRUE
        ELSE IF S > R THEN FALSE
        ELSE TRUE

quota_decide_ignores_admitted(p, admitted_count, attributes) ==
    LET R == Max(0, p.capacity)
        S == SumValues(remaining_needed(p))
    IN  IF IsHelpful(p, attributes) THEN TRUE
        ELSE IF S >= R THEN FALSE
        ELSE TRUE

quota_decide_needs_slot(p, admitted_count, attributes) ==
    LET R == Max(0, p.capacity - admitted_count)
        S == SumValues(remaining_needed(p))
    IN  IF S >= R THEN FALSE
        ELSE TRUE

\* QuotaReservePolicy.decide
quota_decide(p, admitted_count, attributes) ==
    LET R == Max(0, p.capacity - admitted_count)
        S == SumValues(remaining_needed(p))
    IN  IF IsHelpful(p, attributes) THEN TRUE
        ELSE IF S >= R THEN FALSE
        ELSE TRUE

(* ------------------- exact arithmetic for the rates -------------------- *)

\* A float is modelled by the exact rational <<numerator, denominator>>,
\* denominator > 0, in lowest terms.
RECURSIVE Gcd(_, _)
Gcd(a, b) == IF b = 0 THEN a ELSE Gcd(b, a % b)

Abs(a) == IF a < 0 THEN -a ELSE a

Rat(n, d) ==
    LET g == Gcd(Abs(n), d)
    IN  IF n = 0 THEN <<0, 1>> ELSE <<n \div g, d \div g>>

RInt(n) == <<n, 1>>

RAdd(x, y) == Rat(x[1] * y[2] + y[1] * x[2], x[2] * y[2])

RSub(x, y) == Rat(x[1] * y[2] - y[1] * x[2], x[2] * y[2])

RMul(x, y) == Rat(x[1] * y[1], x[2] * y[2])

RLe(x, y) == x[1] * y[2] <= y[1] * x[2]

RLt(x, y) == x[1] * y[2] < y[1] * x[2]

RMin(x, y) == IF RLe(x, y) THEN x ELSE y

RMax(x, y) == IF RLe(y, x) THEN x ELSE y

\* max(1e-6, min(1.0, alpha))
ClampAlpha(alpha) == RMax(<<1, 1000000>>, RMin(RInt(1), alpha))

(* ------------------------ binary64 arithmetic -------------------------- *)

\* Python floats are IEEE 754 binary64: a 53-bit significand m and an
\* exponent e, value m * 2^e, every operation rounded to nearest, ties to
\* even.  Significands are kept as little-endian sequences of 15-bit limbs.
\* Only non-negative values in the normal range occur.
LimbBits == 15
LimbBase == 2 ^ LimbBits
SignificandBits == 53

RECURSIVE BigNorm(_)
BigNorm(x) ==
    IF x # << >> /\ x[Len(x)] = 0 THEN BigNorm(SubSeq(x, 1, Len(x) - 1)) ELSE x

RECURSIVE BigFromInt(_)
BigFromInt(n) ==
    IF n = 0 THEN << >> ELSE <<n % LimbBase>> \o BigFromInt(n \div LimbBase)

Limb(x, i) == IF i <= Len(x) THEN x[i] ELSE 0

RECURSIVE BigAddFrom(_, _, _, _)
BigAddPut(a, b, i, s) == <<s % LimbBase>> \o BigAddFrom(a, b, i + 1, s \div LimbBase)

BigAddFrom(a, b, i, carry) ==
    IF i > Len(a) /\ i > Len(b) THEN BigFromInt(carry)
    ELSE BigAddPut(a, b, i, Limb(a, i) + Limb(b, i) + carry)

BigAdd(a, b) == BigAddFrom(a, b, 1, 0)

RECURSIVE BigMulSmallFrom(_, _, _, _)
BigMulSmallPut(a, k, i, s) ==
    <<s % LimbBase>> \o BigMulSmallFrom(a, k, i + 1, s \div LimbBase)

BigMulSmallFrom(a, k, i, carry) ==
    IF i > Len(a) THEN BigFromInt(carry)
    ELSE BigMulSmallPut(a, k, i, a[i] * k + carry)

\* a * k for 0 <= k <= LimbBase
BigMulSmall(a, k) == BigNorm(BigMulSmallFrom(a, k, 1, 0))

BigShiftLimbs(a, n) == IF a = << >> THEN a ELSE [i \in 1..n |-> 0] \o a

RECURSIVE BigMulFrom(_, _, _)
BigMulFrom(a, b, j) ==
    IF j > Len(b) THEN << >>
    ELSE BigAdd(BigShiftLimbs(BigMulSmall(a, b[j]), j - 1), BigMulFrom(a, b, j + 1))

BigMul(a, b) == BigMulFrom(a, b, 1)

\* Long division by 0 < k <= LimbBase, from the most significant limb down.
RECURSIVE BigDivSmallFrom(_, _, _, _)
BigDivPut(rest, digit) == [q |-> Append(rest.q, digit), r |-> rest.r]

BigDivStep(a, k, i, cur) == BigDivPut(BigDivSmallFrom(a, k, i - 1, cur % k), cur \div k)

BigDivSmallFrom(a, k, i, rem) ==
    IF i = 0 THEN [q |-> << >>, r |-> rem]
    ELSE BigDivStep(a, k, i, rem * LimbBase + a[i])

BigDivNorm(d) == [q |-> BigNorm(d.q), r |-> d.r]

BigDivSmall(a, k) == BigDivNorm(BigDivSmallFrom(a, k, Len(a), 0))

\* a * 2^bits and floor(a / 2^bits)
BigShl(a, bits) ==
    BigShiftLimbs(BigMulSmall(a, 2 ^ (bits % LimbBits)), bits \div LimbBits)

BigShr(a, bits) ==
    IF bits \div LimbBits >= Len(a) THEN << >>
    ELSE BigDivSmall(SubSeq(a, bits \div LimbBits + 1, Len(a)), 2 ^ (bits % LimbBits)).q

BigBitLen(a) ==
    IF a = << >> THEN 0
    ELSE LimbBits * (Len(a) - 1)
         + (CHOOSE k \in 1..LimbBits : 2 ^ (k - 1) <= a[Len(a)] /\ a[Len(a)] < 2 ^ k)

BigOdd(a) == a # << >> /\ a[1] % 2 = 1

\* -1, 0 or 1 as a is below, equal to or above b
RECURSIVE BigCmpFrom(_, _, _)
BigCmpFrom(a, b, i) ==
    IF i = 0 THEN 0
    ELSE IF a[i] < b[i] THEN -1
    ELSE IF a[i] > b[i] THEN 1
    ELSE BigCmpFrom(a, b, i - 1)

BigCmp(a, b) ==
    IF Len(a) < Len(b) THEN -1
    ELSE IF Len(a) > Len(b) THEN 1
    ELSE BigCmpFrom(a, b, Len(a))

FlZero == [m |-> << >>, e |-> 0]

\* A rounded significand that has carried into a 54th bit is 2^53: halve it.
FlNormal(q, E) ==
    IF BigBitLen(q) > SignificandBits THEN [m |-> BigShr(q, 1), e |-> E + 1]
    ELSE [m |-> q, e |-> E]

\* Round to nearest, ties to even: up when the guard bit is set and either
\* something lies below it or the significand is odd.
FlRoundPick(q, E, guard, below) ==
    FlNormal(IF guard /\ (below \/ BigOdd(q)) THEN BigAdd(q, <<1>>) ELSE q, E)

\* q2 is M with all but one of the dropped bits removed.
FlRoundGuard(M, E, sticky, drop, q2) ==
    FlRoundPick(BigShr(q2, 1), E, BigOdd(q2), sticky \/ BigShl(q2, drop - 1) # M)

\* Drop the low bits of M (at least two) to leave 53.
FlRoundDrop(M, E, sticky, drop) ==
    FlRoundGuard(M, E + drop, sticky, drop, BigShr(M, drop - 1))

\* Widen M, of L bits, to 55 bits or more first.
FlRoundWide(M, E, sticky, L) ==
    IF L < SignificandBits + 2
    THEN FlRoundDrop(BigShl(M, SignificandBits + 2 - L), E - (SignificandBits + 2 - L), sticky, 2)
    ELSE FlRoundDrop(M, E, sticky, L - SignificandBits)

\* The binary64 nearest to M * 2^E (plus a positive amount below the last
\* bit of M when sticky).
FlRound(M, E, sticky) ==
    IF M = << >> THEN FlZero ELSE FlRoundWide(M, E, sticky, BigBitLen(M))

\* float(n) for a small non-negative int
FlOfInt(n) == FlRound(BigFromInt(n), 0, FALSE)

FlOfQuotient(d, E) == FlRound(d.q, E, d.r # 0)

\* a / float(b) for small ints a >= 0, b > 0
FlDiv(a, b) ==
    FlOfQuotient(BigDivSmall(BigShl(BigFromInt(a), 5 * LimbBits), b), 0 - 5 * LimbBits)

\* The float a decimal literal n/d is read as.
FlOfRat(x) == FlDiv(x[1], x[2])

FlMul(x, y) ==
    IF x.m = << >> \/ y.m = << >> THEN FlZero
    ELSE FlRound(BigMul(x.m, y.m), x.e + y.e, FALSE)

FlAddAt(x, y, E) == FlRound(BigAdd(BigShl(x.m, x.e - E), BigShl(y.m, y.e - E)), E, FALSE)

FlAdd(x, y) ==
    IF x.m = << >> THEN y
    ELSE IF y.m = << >> THEN x
    ELSE FlAddAt(x, y, IF x.e < y.e THEN x.e ELSE y.e)

FlLeAt(x, y, E) == BigCmp(BigShl(x.m, x.e - E), BigShl(y.m, y.e - E)) <= 0

\* x <= y
FlLe(x, y) ==
    IF x.m = << >> THEN TRUE
    ELSE IF y.m = << >> THEN FALSE
    ELSE FlLeAt(x, y, IF x.e < y.e THEN x.e ELSE y.e)

\* p_hat >= req_ratio * (1.0 + risk_margin), with req_ratio = S / float(R_prime),
\* as binary64 evaluates it.  With operands this small the rounded result
\* can differ from the exact one only when the two sides are equal as
\* rationals (unequal sides are further apart than the rounding errors), so
\* the rounded evaluation is carried out in that case only.
rate_gate(p_hat, S, R_prime, risk_margin) ==
    IF p_hat # RMul(Rat(S, R_prime), RAdd(RInt(1), risk_margin))
    THEN RLe(RMul(Rat(S, R_prime), RAdd(RInt(1), risk_margin)), p_hat)
    ELSE FlLe(FlMul(FlDiv(S, R_prime), FlAdd(FlOfInt(1), FlOfRat(risk_margin))),
              FlOfRat(p_hat))

(* ------------------------ WindowRelaxedPolicy -------------------------- *)

WindowRelaxedPolicy(min_counts, capacity, window_size, risk_margin, min_observations) ==
    [name |-> "window",
     min_counts |-> min_counts,
     capacity |-> capacity,
     window_size |-> window_size,
     risk_margin |-> risk_margin,
     min_observations |-> min_observations,
     accepted_attribute_counts |-> NoCounts,
     window_helpful |-> << >>]

\* while len(window_helpful) > window_size: popleft()
RECURSIVE PopLeftTo(_, _)
PopLeftTo(w, size) ==
    IF Len(w) > size /\ Len(w) > 0 THEN PopLeftTo(Tail(w), size) ELSE w

\* _record_window evicting with pop() instead of popleft().
window_record_window_pop_right(p, helpful) ==
    [p EXCEPT !.window_helpful =
        SubSeq(Append(@, helpful), 1, Min(Len(@) + 1, Max(0, p.window_size)))]

\* WindowRelaxedPolicy._record_window
window_record_window(p, helpful) ==
    [p EXCEPT !.window_helpful = PopLeftTo(Append(@, helpful), p.window_size)]

\* WindowRelaxedPolicy._p_hat
window_p_hat(p) ==
    IF p.window_helpful = << >> THEN RInt(0)
    ELSE Rat(Cardinality({i \in 1..Len(p.window_helpful) : p.window_helpful[i]}),
             Len(p.window_helpful))

\* WindowRelaxedPolicy.decide without the test of S against R.
window_decide_no_floor(p, admitted_count, attributes) ==
    LET R == Max(0, p.capacity - admitted_count)
        helpful == IsHelpful(p, attributes)
        q == window_record_window(p, helpful)
        S == SumValues(remaining_needed(p))
        R_prime == Max(1, R - 1)
        accept ==
            IF helpful THEN TRUE
            ELSE IF Len(q.window_helpful) < p.min_observations THEN S < (R - 1)
            ELSE rate_gate(window_p_hat(q), S, R_prime, p.risk_margin)
    IN  [accept |-> accept, policy |-> q]

\* WindowRelaxedPolicy.decide: the result and the policy it leaves behind.
window_decide(p, admitted_count, attributes) ==
    LET R == Max(0, p.capacity - admitted_count)
        helpful == IsHelpful(p, attributes)
        q == window_record_window(p, helpful)
        S == SumValues(remaining_needed(p))
        R_prime == Max(1, R - 1)
        accept ==
            IF helpful THEN TRUE
            ELSE IF S >= R THEN FALSE
            ELSE IF Len(q.window_helpful) < p.min_observations THEN S < (R - 1)
            ELSE rate_gate(window_p_hat(q), S, R_prime, p.risk_margin)
    IN  [accept |-> accept, policy |-> q]

(* ------------------------- EwmaRelaxedPolicy --------------------------- *)

EwmaRelaxedPolicy(min_counts, capacity, alpha, risk_margin, warmup_observations) ==
    [name |-> "ewma",
     min_counts |-> min_counts,
     capacity |-> capacity,
     alpha |-> alpha,
     risk_margin |-> risk_margin,
     warmup_observations |-> warmup_observations,
     accepted_attribute_counts |-> NoCounts,
     p_hat |-> RInt(0),
     n_obs |-> 0]

\* EwmaRelaxedPolicy._update_p_hat
ewma_update_p_hat(p, helpful) ==
    LET x == IF helpful THEN RInt(1) ELSE RInt(0)
        a == ClampAlpha(p.alpha)
    IN  [p EXCEPT
            !.p_hat = IF p.n_obs = 0 THEN x
                      ELSE RAdd(RMul(a, x), RMul(RSub(RInt(1), a), @)),
            !.n_obs = @ + 1]

\* EwmaRelaxedPolicy.decide without the test of S against R.
ewma_decide_no_floor(p, admitted_count, attributes) ==
    LET R == Max(0, p.capacity - admitted_count)
        helpful == IsHelpful(p, attributes)
        q == ewma_update_p_hat(p, helpful)
        S == SumValues(remaining_needed(p))
        R_prime == Max(1, R - 1)
        accept ==
            IF helpful THEN TRUE
            ELSE IF q.n_obs < p.warmup_observations THEN S < (R - 1)
            ELSE rate_gate(q.p_hat, S, R_prime, p.risk_margin)
    IN  [accept |-> accept, policy |-> q]

\* EwmaRelaxedPolicy.decide: the result and the policy it leaves behind.
ewma_decide(p, admitted_count, attributes) ==
    LET R == Max(0, p.capacity - admitted_count)
        helpful == IsHelpful(p, attributes)
        q == ewma_update_p_hat(p, helpful)
        S == SumValues(remaining_needed(p))
        R_prime == Max(1, R - 1)
        accept ==
            IF helpful THEN TRUE
            ELSE IF S >= R THEN FALSE
            ELSE IF q.n_obs < p.warmup_observations THEN S < (R - 1)
            ELSE rate_gate(q.p_hat, S, R_prime, p.risk_margin)
    IN  [accept |-> accept, policy |-> q]

(* ------------------------ AttributeEwmaPolicy -------------------------- *)

\* The iteration order of the min_counts dict (its insertion order).
AttrOrder == <<"A", "B">>

AttrIndex(a) == CHOOSE i \in 1..Len(AttrOrder) : AttrOrder[i] = a

\* An empty dict (also None where the code only tests truthiness).
EmptyDict == << >>

AttributeEwmaPolicy(min_counts, capacity, alpha, risk_margin, warmup_observations, prior_freqs, gate_top_k, correlations, corr_beta, corr_include_negative) ==
    [name |-> "attr-ewma",
     min_counts |-> min_counts,
     capacity |-> capacity,
     alpha |-> alpha,
     risk_margin |-> risk_margin,
     warmup_observations |-> warmup_observations,
     prior_freqs |-> prior_freqs,
     gate_top_k |-> gate_top_k,
     correlations |-> correlations,
     corr_beta |-> corr_beta,
     corr_include_negative |-> corr_include_negative,
     accepted_attribute_counts |-> NoCounts,
     p_hat |-> EmptyDict,
     n_obs |-> 0]

\* AttributeEwmaPolicy._ewma_update: the new p_hat[a]
attr_ewma_update(p, a, x) ==
    LET a_s == ClampAlpha(p.alpha)
        prev == IF a \in DOMAIN p.p_hat THEN p.p_hat[a]
                ELSE IF p.prior_freqs # EmptyDict /\ a \in DOMAIN p.prior_freqs
                     THEN p.prior_freqs[a]
                ELSE x
    IN  RAdd(RMul(a_s, x), RMul(RSub(RInt(1), a_s), prev))

\* AttributeEwmaPolicy._record_arrival
attr_record_arrival(p, attributes) ==
    [p EXCEPT
        !.p_hat = [a \in (DOMAIN p.p_hat) \cup (DOMAIN p.min_counts) |->
                      IF a \in DOMAIN p.min_counts
                      THEN attr_ewma_update(p, a, IF a \in attributes THEN RInt(1)
                                                  ELSE RInt(0))
                      ELSE p.p_hat[a]],
        !.n_obs = @ + 1]

RECURSIVE RSumOver(_, _)
RSumOver(f, S) ==
    IF S = {} THEN RInt(0)
    ELSE LET x == CHOOSE y \in S : TRUE
         IN  RAdd(f[x], RSumOver(f, S \ {x}))

\* float(self.correlations.get(a, {}).get(b, 0.0))
CorrOf(p, a, b) ==
    IF a \in DOMAIN p.correlations /\ b \in DOMAIN p.correlations[a]
    THEN p.correlations[a][b]
    ELSE RInt(0)

\* The rate of attribute a with no correlation term.
attr_adjusted_rate_uninflated(p, a, underfilled_all_names) ==
    IF a \in DOMAIN p.p_hat THEN p.p_hat[a] ELSE RInt(0)

\* The rate of attribute a used in the expectation check, inflated by the
\* average correlation with the other underfilled attributes.
attr_adjusted_rate(p, a, underfilled_all_names) ==
    LET p0 == IF a \in DOMAIN p.p_hat THEN p.p_hat[a] ELSE RInt(0)
        others == {b \in underfilled_all_names :
                      /\ b # a
                      /\ (RLe(RInt(0), CorrOf(p, a, b)) \/ p.corr_include_negative)}
        row == [b \in others |-> CorrOf(p, a, b)]
        avg_corr == RMul(RSumOver(row, others), Rat(1, Cardinality(others)))
    IN  IF /\ p.correlations # EmptyDict
           /\ p.corr_beta # RInt(0)
           /\ Cardinality(underfilled_all_names) > 1
           /\ others # {}
        THEN RMin(RInt(1),
                  RMax(RInt(0),
                       RMul(p0, RAdd(RInt(1), RMul(p.corr_beta, avg_corr)))))
        ELSE p0

\* underfilled.sort(key=need, reverse=True)[:k]: the k largest needs, ties
\* kept in dict order (the sort is stable).
attr_top_k(need, underfilled, k) ==
    {a \in underfilled :
        Cardinality({b \in underfilled :
                        \/ need[b] > need[a]
                        \/ need[b] = need[a] /\ AttrIndex(b) < AttrIndex(a)}) < k}

\* The worst-case guard left out.
attr_need_exceeds_slots_never(remaining_after, underfilled, R_post) == FALSE

\* for _, need in underfilled: if need > R_post: return False
attr_need_exceeds_slots(remaining_after, underfilled, R_post) ==
    \E a \in underfilled : remaining_after[a] > R_post

\* The expectation check with no margin on the minimum.
attr_expectation_met_no_margin(count_after, rate, R_post, minimum, margin_eff) ==
    ~RLt(RAdd(RInt(count_after), RMul(rate, RInt(R_post))), RInt(minimum))

\* not (counts_after_accept[a] + p * float(R_post) < min_counts[a] * (1.0 + margin_eff))
attr_expectation_met(count_after, rate, R_post, minimum, margin_eff) ==
    ~RLt(RAdd(RInt(count_after), RMul(rate, RInt(R_post))),
         RMul(RInt(minimum), RAdd(RInt(1), margin_eff)))

\* The warmup rule with the baseline's slack test, S < R.
attr_warmup_accept_baseline(helpful, R_post, slack_before) ==
    helpful \/ slack_before < R_post + 1

\* if helpful: return True; if R_post <= 0: return False;
\* return slack_before < R_post
attr_warmup_accept(helpful, R_post, slack_before) ==
    IF helpful THEN TRUE
    ELSE IF R_post <= 0 THEN FALSE
    ELSE slack_before < R_post

\* AttributeEwmaPolicy.decide: the result and the policy it leaves behind.
attr_decide(p, admitted_count, attributes) ==
    LET R == Max(0, p.capacity - admitted_count)
        remaining_before == remaining_needed(p)
        helpful == IsHelpful(p, attributes)
        q == attr_record_arrival(p, attributes)
        contributions == [a \in DOMAIN p.min_counts |-> IF a \in attributes THEN 1 ELSE 0]
        R_post == Max(0, R - 1)
        counts_after_accept ==
            [a \in DOMAIN p.min_counts |->
                p.accepted_attribute_counts[a] + contributions[a]]
        remaining_after ==
            [a \in DOMAIN p.min_counts |->
                Max(0, p.min_counts[a] - counts_after_accept[a])]
        underfilled_all_names == {a \in DOMAIN p.min_counts : remaining_after[a] > 0}
        max_need == IF underfilled_all_names = {} THEN 0
                    ELSE CHOOSE n \in {remaining_after[a] : a \in underfilled_all_names} :
                            \A a \in underfilled_all_names : remaining_after[a] <= n
        margin_eff ==
            IF R_post = 0 THEN p.risk_margin
            ELSE RMul(p.risk_margin, RMin(RInt(1), Rat(max_need, R_post)))
        underfilled ==
            IF p.gate_top_k > 0 /\ Cardinality(underfilled_all_names) > p.gate_top_k
            THEN attr_top_k(remaining_after, underfilled_all_names, p.gate_top_k)
            ELSE underfilled_all_names
        accept ==
            IF R <= 0 THEN FALSE
            ELSE IF attr_need_exceeds_slots(remaining_after, underfilled_all_names, R_post)
                 THEN FALSE
            ELSE IF q.n_obs < p.warmup_observations
                 THEN attr_warmup_accept(helpful, R_post, SumValues(remaining_before))
            ELSE IF underfilled_all_names = {} THEN TRUE
            ELSE \A a \in underfilled :
                    \/ contributions[a] > 0
                    \/ attr_expectation_met(counts_after_accept[a],
                                            attr_adjusted_rate(q, a, underfilled_all_names),
                                            R_post, p.min_counts[a], margin_eff)
    IN  [accept |-> accept, policy |-> q]

(* ---------------------- the shared policy contract --------------------- *)

\* decide returning true for a helpful candidate before it has updated the
\* estimator.
decide_helpful_first(p, admitted_count, attributes) ==
    IF IsHelpful(p, attributes) /\ p.capacity - admitted_count > 0
    THEN [accept |-> TRUE, policy |-> p]
    ELSE CASE p.name = "reserve" ->
                 [accept |-> quota_decide(p, admitted_count, attributes), policy |-> p]
           [] p.name = "window" -> window_decide(p, admitted_count, attributes)
           [] p.name = "ewma" -> ewma_decide(p, admitted_count, attributes)
           [] p.name = "attr-ewma" -> attr_decide(p, admitted_count, attributes)

\* policy.decide(admitted_count, attributes): the result and the policy the
\* call leaves behind (the estimator is its only side effect).
decide(p, admitted_count, attributes) ==
    CASE p.name = "reserve" ->
            [accept |-> quota_decide(p, admitted_count, attributes), policy |-> p]
      [] p.name = "window" -> window_decide(p, admitted_count, attributes)
      [] p.name = "ewma" -> ewma_decide(p, admitted_count, attributes)
      [] p.name = "attr-ewma" -> attr_decide(p, admitted_count, attributes)

\* record_observation updating the estimate without counting the observation.
record_observation_uncounted(p, helpful) ==
    CASE p.name = "reserve" -> p
      [] p.name = "window" ->
            IF p.window_helpful = << >> THEN window_record_window(p, helpful)
            ELSE [p EXCEPT !.window_helpful = [@ EXCEPT ![Len(@)] = helpful]]
      [] p.name = "ewma" -> [ewma_update_p_hat(p, helpful) EXCEPT !.n_obs = p.n_obs]
      [] p.name = "attr-ewma" -> p

\* policy.record_observation(helpful)
record_observation(p, helpful) ==
    CASE p.name = "reserve" -> p
      [] p.name = "window" -> window_record_window(p, helpful)
      [] p.name = "ewma" -> ewma_update_p_hat(p, helpful)
      [] p.name = "attr-ewma" -> p

(* ------------------------------ state --------------------------------- *)

VARIABLES
    policy,       \* the active policy instance
    admitted,     \* admitted count the controller / driver holds
    arrivals,     \* candidates decided so far (decide calls)
    last,         \* the last decide call: its inputs, the state it saw, its result
    pc,           \* the controller: init, running, returned, failed, raised, resumed
    resp,         \* the upstream's last response
    rejected,     \* rejected count the controller holds
    step,         \* the loop's step counter
    up,           \* the upstream: index on offer, admitted and rejected counts
    log,          \* the event log file, one record per line
    log_interval, \* --log-interval
    resyncs,      \* index mismatches met so far
    recon,        \* what _reconstruct_from_log returned
    recon_runs,   \* how often _reconstruct_from_log has run
    outcome,      \* how the run ended: the value returned or the exception raised
    live          \* the interrupted process's policy, kept for comparison

polVars == <<policy, admitted, arrivals, last>>

sessVars == <<pc, resp, rejected, step, up, log, log_interval, resyncs, recon,
              recon_runs, live, outcome>>

vars == <<policy, admitted, arrivals, last,
          pc, resp, rejected, step, up, log, log_interval, resyncs, recon,
          recon_runs, live, outcome>>

NoCall == [kind |-> "none"]

NoResponse == [status |-> "none"]

NoUpstream == [index |-> 0, admitted |-> 0, rejected |-> 0]

NoState == [ok |-> FALSE, error |-> "not run"]

NoPolicy == [name |-> "none"]

NoOutcome == [type |-> "none"]

\* An exception that ends the run.
Raised(type, message) == [type |-> type, message |-> message]

\* What a decide call saw and returned.
Call(kind, p, admitted_count, attributes, accept) ==
    [kind |-> kind,
     attributes |-> attributes,
     admitted_count |-> admitted_count,
     helpful |-> IsHelpful(p, attributes),
     S |-> SumValues(remaining_needed(p)),
     R |-> p.capacity - admitted_count,
     accept |-> accept]

(* --------------- a Quota-Reserve policy driven directly ---------------- *)

QuotaInit ==
    /\ \E mc \in ConstraintMaps, cap \in 1..MaxCapacity :
          policy = QuotaReservePolicy(mc, cap)
    /\ admitted = 0
    /\ arrivals = 0
    /\ last = NoCall
    /\ pc = "idle"
    /\ resp = NoResponse
    /\ rejected = 0
    /\ step = 0
    /\ up = NoUpstream
    /\ log = << >>
    /\ log_interval = 0
    /\ resyncs = 0
    /\ recon = NoState
    /\ recon_runs = 0
    /\ live = NoPolicy
    /\ outcome = NoOutcome

\* One arrival: decide, then update_on_accept when it returned true; the
\* admitted count grows by one per accept.
QuotaArrive ==
    /\ arrivals < MaxArrivals
    /\ \E attributes \in AttrVectors :
          LET accept == quota_decide(policy, admitted, attributes)
          IN  /\ last' = Call("arrive", policy, admitted, attributes, accept)
              /\ policy' = IF accept THEN update_on_accept(policy, attributes)
                           ELSE policy
              /\ admitted' = IF accept THEN admitted + 1 ELSE admitted
    /\ arrivals' = arrivals + 1
    /\ UNCHANGED sessVars

\* decide called with any admitted_count, as the unit test does; the policy
\* is left as it is.
QuotaProbe ==
    /\ \E attributes \in AttrVectors, admitted_count \in 0..(MaxCapacity + 1) :
          last' = Call("probe", policy, admitted_count, attributes,
                       quota_decide(policy, admitted_count, attributes))
    /\ UNCHANGED <<policy, admitted, arrivals>>
    /\ UNCHANGED sessVars

QuotaNext == QuotaArrive \/ QuotaProbe

SpecQuota == QuotaInit /\ [][QuotaNext]_vars

(* --------------------------- the event log ----------------------------- *)

\* --scenario
Scenario == 1

\* JsonLinesLogger.start
StartRecord(scenario, game_id, capacity, constraints, prior_freqs, correlations) ==
    [event |-> "start", scenario |-> scenario, gameId |-> game_id,
     capacity |-> capacity, constraints |-> constraints,
     prior_freqs |-> prior_freqs, correlations |-> correlations]

\* JsonLinesLogger.request
RequestRecord(scenario, send_person_index, decide_for_index, decide_for_attrs, accept) ==
    [event |-> "request", scenario |-> scenario,
     send_person_index |-> send_person_index,
     decide_for_index |-> decide_for_index,
     decide_for_attrs |-> decide_for_attrs, accept |-> accept]

\* JsonLinesLogger.response
ResponseRecord(scenario, admitted_, rejected_, status, next_person_index) ==
    [event |-> "response", scenario |-> scenario, admitted |-> admitted_,
     rejected |-> rejected_, status |-> status,
     next_person_index |-> next_person_index]

\* JsonLinesLogger.progress
ProgressRecord(scenario, step_, admitted_, rejected_, cap_left, need_sum, top_remaining, accept, person_index) ==
    [event |-> "progress", scenario |-> scenario, step |-> step_,
     admitted |-> admitted_, rejected |-> rejected_, cap_left |-> cap_left,
     need_sum |-> need_sum, top_remaining |-> top_remaining,
     accept |-> accept, personIndex |-> person_index]

CompletedRecord_satisfied_by_one(scenario, rejected_count, remaining) ==
    [event |-> "completed", scenario |-> scenario, rejected |-> rejected_count,
     remaining |-> remaining,
     constraints_satisfied |-> (\E a \in DOMAIN remaining : remaining[a] = 0)]

\* JsonLinesLogger.completed
CompletedRecord(scenario, rejected_count, remaining) ==
    [event |-> "completed", scenario |-> scenario, rejected |-> rejected_count,
     remaining |-> remaining,
     constraints_satisfied |-> (SumValues(remaining) = 0)]

FailedRecord_unknown_reason(scenario, reason) ==
    [event |-> "failed", scenario |-> scenario, reason |-> "unknown"]

\* JsonLinesLogger.failed
FailedRecord(scenario, reason) ==
    [event |-> "failed", scenario |-> scenario, reason |-> reason]

\* JsonLinesLogger.resync
ResyncRecord(scenario, expected, got) ==
    [event |-> "resync", scenario |-> scenario, expected |-> expected, got |-> got]

\* A line json.loads cannot parse.
MalformedLine == [event |-> "malformed"]

\* A line json.loads parses to a value that is not an object: a number, a
\* string, a list, null.
NonObjectLine == [event |-> "non-object"]

\* --progress-attrs
ProgressAttrs == 3

\* sorted(rem.items(), key=need, reverse=True), entries with need > 0, the
\* first progress_attrs of them.
RECURSIVE SortedByNeed(_, _)
SortedByNeed(rem, S) ==
    IF S = {} THEN << >>
    ELSE LET a == CHOOSE x \in S :
                    \A y \in S \ {x} :
                        \/ rem[x] > rem[y]
                        \/ rem[x] = rem[y] /\ AttrIndex(x) < AttrIndex(y)
         IN  <<(<<a, rem[a]>>)>> \o SortedByNeed(rem, S \ {a})

TopRemaining(rem) ==
    LET top == SortedByNeed(rem, {a \in DOMAIN rem : rem[a] > 0})
    IN  SubSeq(top, 1, Min(Len(top), Max(0, ProgressAttrs)))

(* ------------------------- _reconstruct_from_log ----------------------- *)

\* The lines json.loads parses, in file order.
ParsedLines(l) == SelectSeq(l, LAMBDA rec : rec /= MalformedLine)

\* Position of the last start record among the parsed lines, 0 when none.
LastStartIndex(recs) ==
    IF \E i \in 1..Len(recs) : recs[i].event = "start"
    THEN CHOOSE i \in 1..Len(recs) :
            /\ recs[i].event = "start"
            /\ \A j \in (i + 1)..Len(recs) : recs[j].event # "start"
    ELSE 0

\* rec.get("event") is evaluated on every parsed line, outside the try block:
\* it raises on a parsed value that has no get method.
HasNonObject(l) == \E i \in 1..Len(l) : l[i] = NonObjectLine

\* buffer kept from the first start record on.
LogBuffer_from_first_start(l) ==
    LET recs == ParsedLines(l)
    IN  IF LastStartIndex(recs) = 0 THEN << >>
        ELSE SubSeq(recs, CHOOSE i \in 1..Len(recs) :
                              /\ recs[i].event = "start"
                              /\ \A j \in 1..(i - 1) : recs[j].event # "start",
                    Len(recs))

\* buffer: the last start record and every parsed record after it.
LogBuffer(l) ==
    LET recs == ParsedLines(l)
        i == LastStartIndex(recs)
    IN  IF i = 0 THEN << >> ELSE SubSeq(recs, i, Len(recs))

\* counts[a] = counts.get(a, 0) + 1 for every true attribute
AddAttrs(counts, attrs) ==
    [a \in Attr |-> IF a \in attrs THEN counts[a] + 1 ELSE counts[a]]

RECURSIVE AcceptedCounts_every_request(_, _)
AcceptedCounts_every_request(buffer, n) ==
    IF n = 0 THEN NoCounts
    ELSE LET rec == buffer[n]
             before == AcceptedCounts_every_request(buffer, n - 1)
         IN  IF rec.event = "request"
             THEN AddAttrs(before, rec.decide_for_attrs)
             ELSE before

\* accepted_counts after the first n records of the buffer
RECURSIVE AcceptedCounts(_, _)
AcceptedCounts(buffer, n) ==
    IF n = 0 THEN NoCounts
    ELSE LET rec == buffer[n]
             before == AcceptedCounts(buffer, n - 1)
         IN  IF rec.event = "request" /\ rec.accept
             THEN AddAttrs(before, rec.decide_for_attrs)
             ELSE before

\* Position in the buffer of the last record of the given kind, 0 when none.
LastOf(buffer, kind) ==
    IF \E i \in 1..Len(buffer) : buffer[i].event = kind
    THEN CHOOSE i \in 1..Len(buffer) :
            /\ buffer[i].event = kind
            /\ \A j \in (i + 1)..Len(buffer) : buffer[j].event # kind
    ELSE 0

\* The dict _reconstruct_from_log returns.
ReconState(buffer, next_index, prev_accept) ==
    [ok |-> TRUE,
     constraints |-> buffer[1].constraints,
     capacity |-> buffer[1].capacity,
     game_id |-> buffer[1].gameId,
     scenario |-> buffer[1].scenario,
     accepted_counts |-> AcceptedCounts(buffer, Len(buffer)),
     next_index |-> next_index,
     prev_accept |-> prev_accept,
     events |-> buffer,
     prior_freqs |-> buffer[1].prior_freqs,
     correlations |-> buffer[1].correlations]

\* The RuntimeError _reconstruct_from_log raises.
ReconError(message) == [ok |-> FALSE, error |-> message]

reconstruct_prefers_request(l) ==
    LET buffer == LogBuffer(l)
        rq == LastOf(buffer, "request")
        rs == LastOf(buffer, "response")
    IN  IF HasNonObject(l)
        THEN ReconError("AttributeError: object has no attribute 'get'")
        ELSE IF buffer = << >>
        THEN ReconError("No start event found in log")
        ELSE IF rq # 0
        THEN ReconState(buffer, buffer[rq].send_person_index, buffer[rq].accept)
        ELSE IF rs # 0 /\ buffer[rs].next_person_index # Null
        THEN ReconState(buffer, buffer[rs].next_person_index, FALSE)
        ELSE ReconError("No request/response events to infer next index")

reconstruct_defaults_to_zero(l) ==
    LET buffer == LogBuffer(l)
        rq == LastOf(buffer, "request")
        rs == LastOf(buffer, "response")
    IN  IF HasNonObject(l)
        THEN ReconError("AttributeError: object has no attribute 'get'")
        ELSE IF buffer = << >>
        THEN ReconError("No start event found in log")
        ELSE IF rs # 0 /\ buffer[rs].next_person_index # Null
        THEN ReconState(buffer, buffer[rs].next_person_index,
                        IF rq # 0 THEN buffer[rq].accept ELSE FALSE)
        ELSE IF rq # 0
        THEN ReconState(buffer, buffer[rq].send_person_index, buffer[rq].accept)
        ELSE ReconState(buffer, 0, FALSE)

\* _reconstruct_from_log: the state it returns, or the error it raises.
reconstruct_from_log(l) ==
    LET buffer == LogBuffer(l)
        rq == LastOf(buffer, "request")
        rs == LastOf(buffer, "response")
    IN  IF HasNonObject(l)
        THEN ReconError("AttributeError: object has no attribute 'get'")
        ELSE IF buffer = << >>
        THEN ReconError("No start event found in log")
        ELSE IF rs # 0 /\ buffer[rs].next_person_index # Null
        THEN ReconState(buffer, buffer[rs].next_person_index,
                        IF rq # 0 THEN buffer[rq].accept ELSE FALSE)
        ELSE IF rq # 0
        THEN ReconState(buffer, buffer[rq].send_person_index, buffer[rq].accept)
        ELSE ReconError("No request/response events to infer next index")

LogAfterRead_truncating(l) == << >>

\* The file after _reconstruct_from_log has read it: opened with mode "r".
LogAfterRead(l) == l

(* ------------------ run parameters of the modelled sessions ------------ *)

\* Decisions a session makes before the model stops it.
MaxSteps == 2
\* Index mismatches the upstream raises in one session.
MaxResyncs == 2
\* The minimum count of every constrained attribute of a session.
SessionMin == 1
\* Largest --capacity of a session.
MaxSessionCapacity == 2
\* Largest --log-interval.
MaxLogInterval == 2
\* --window-size, --min-observations, --warmup
WindowSize == 2
MinObservations == 2
WarmupObservations == 2
\* --alpha, --risk-margin (0.15 for window and ewma, 0.20 for attr-ewma)
Alpha == <<1, 2>>
RiskMargin == <<3, 20>>
AttrRiskMargin == <<1, 5>>
\* --gate-top-k (not given), --corr-beta, --corr-include-neg, --corr-aware
GateTopK == 0
CorrBeta == <<1, 4>>
CorrIncludeNeg == FALSE
CorrAware == FALSE

PolicyNames == {"reserve", "window", "ewma", "attr-ewma"}

SessionConstraintMaps == UNION {[D -> {SessionMin}] : D \in SUBSET Attr}

GameId == "g-123"

\* new_game.attributeStatistics, as the upstream reports them
RelativeFrequencies == [a \in Attr |-> <<1, 2>>]
Correlations == [a \in Attr |-> [b \in Attr \ {a} |-> <<1, 2>>]]

\* The policy constructor calls shared by run_game and resume_game.
MakePolicy(policy_name, min_counts, capacity, prior_freqs, correlations) ==
    CASE policy_name = "reserve" -> QuotaReservePolicy(min_counts, capacity)
      [] policy_name = "window" ->
            WindowRelaxedPolicy(min_counts, capacity, WindowSize, RiskMargin,
                                MinObservations)
      [] policy_name = "ewma" ->
            EwmaRelaxedPolicy(min_counts, capacity, Alpha, RiskMargin,
                              WarmupObservations)
      [] policy_name = "attr-ewma" ->
            AttributeEwmaPolicy(min_counts, capacity, Alpha, AttrRiskMargin,
                                WarmupObservations, prior_freqs, GateTopK,
                                correlations, CorrBeta, CorrIncludeNeg)

(* ----------------------------- the upstream ---------------------------- *)

\* The upstream records one decision and moves to the next person.
UpApply(u, accept) ==
    [index |-> u.index + 1,
     admitted |-> IF accept THEN u.admitted + 1 ELSE u.admitted,
     rejected |-> IF accept THEN u.rejected ELSE u.rejected + 1]

\* ApiClient.decide_and_next: the response object for the upstream's status.
UpResponse(u, status) ==
    CASE status = "running" ->
            [status |-> "running", admittedCount |-> u.admitted,
             rejectedCount |-> u.rejected, personIndex |-> u.index, reason |-> ""]
      [] status = "completed" ->
            [status |-> "completed", admittedCount |-> 0,
             rejectedCount |-> u.rejected, personIndex |-> Null, reason |-> ""]
      [] status = "failed" ->
            [status |-> "failed", admittedCount |-> 0,
             rejectedCount |-> 0, personIndex |-> Null, reason |-> "limit"]

Statuses == {"running", "completed", "failed"}

(* ------------------------------- run_game ------------------------------ *)

Init ==
    /\ \E policy_name \in PolicyNames, mc \in SessionConstraintMaps,
          cap \in {1, MaxSessionCapacity} :
          policy = MakePolicy(policy_name, mc, cap, RelativeFrequencies,
                              IF CorrAware THEN Correlations ELSE EmptyDict)
    /\ log_interval \in {1, MaxLogInterval}
    /\ admitted = 0
    /\ arrivals = 0
    /\ last = NoCall
    /\ pc = "init"
    /\ resp = NoResponse
    /\ rejected = 0
    /\ step = 0
    /\ up = NoUpstream
    /\ log = << >>
    /\ resyncs = 0
    /\ recon = NoState
    /\ recon_runs = 0
    /\ live = NoPolicy
    /\ outcome = NoOutcome

\* run_game up to the loop: fetch the first person, write the start record.
RunGameStart ==
    /\ pc = "init"
    /\ \E status \in Statuses : resp' = UpResponse(up, status)
    /\ log' = Append(log, StartRecord(Scenario, GameId, policy.capacity,
                                      policy.min_counts, RelativeFrequencies,
                                      Correlations))
    /\ pc' = "running"
    /\ UNCHANGED <<policy, admitted, arrivals, last, rejected, step, up,
                   log_interval, resyncs, recon, recon_runs, live, outcome>>

\* raise RuntimeError(f"Game failed: {reason}")
GameFailed(reason) ==
    [type |-> "RuntimeError", message |-> "Game failed", reason |-> reason]

\* The loop on a failed response: log it and raise.
LoopFailed ==
    /\ pc = "running"
    /\ resp.status = "failed"
    /\ log' = Append(log, FailedRecord(Scenario, resp.reason))
    /\ pc' = "failed"
    /\ outcome' = GameFailed(resp.reason)
    /\ UNCHANGED <<policy, admitted, arrivals, last, resp, rejected, step, up,
                   log_interval, resyncs, recon, recon_runs, live>>

\* return rejected, remaining
Returned(rejected_count, remaining) ==
    [type |-> "return", rejected |-> rejected_count, remaining |-> remaining]

\* The loop on a completed response: log the outcome and return it.
LoopCompleted ==
    /\ pc = "running"
    /\ resp.status = "completed"
    /\ rejected' = resp.rejectedCount
    /\ log' = Append(log, CompletedRecord(Scenario, resp.rejectedCount,
                                          remaining_needed(policy)))
    /\ pc' = "returned"
    /\ outcome' = Returned(resp.rejectedCount, remaining_needed(policy))
    /\ UNCHANGED <<policy, admitted, arrivals, last, resp, step, up,
                   log_interval, resyncs, recon, recon_runs, live>>

\* The records the loop appends at the end of a step.
StepLog(step_, admitted_, rejected_, new_resp, p, accept, person_index) ==
    IF log_interval > 0 /\ step_ % log_interval = 0
    THEN <<ResponseRecord(Scenario, admitted_, rejected_, new_resp.status,
                          new_resp.personIndex),
           ProgressRecord(Scenario, step_, admitted_, rejected_,
                          Max(0, p.capacity - admitted_),
                          SumValues(remaining_needed(p)),
                          TopRemaining(remaining_needed(p)),
                          accept, person_index)>>
    ELSE << >>

\* One client.decide_and_next call that submits a decision.
Submit(person_index, accept) == [person_index |-> person_index, accept |-> accept]

Submits_same_index(next_index, accept, mismatch, expected) ==
    IF mismatch
    THEN <<Submit(next_index, accept), Submit(next_index, accept)>>
    ELSE <<Submit(next_index, accept)>>

\* The submit calls of one pass of the loop: the decision at next_index and,
\* when that raised an index mismatch, the same decision once more at the
\* index the upstream expects.
Submits(next_index, accept, mismatch, expected) ==
    IF mismatch
    THEN <<Submit(next_index, accept), Submit(expected, accept)>>
    ELSE <<Submit(next_index, accept)>>

Updates_before_submit(accept, raised, attributes) ==
    IF accept THEN <<attributes>> ELSE << >>

\* The update_on_accept calls of one pass of the loop: one, after the submit
\* returned, when decide returned true; none when the submit raised.
Updates(accept, raised, attributes) ==
    IF accept /\ ~raised THEN <<attributes>> ELSE << >>

\* The policy after the update_on_accept calls of a pass.
RECURSIVE ApplyUpdates(_, _)
ApplyUpdates(p, updates) ==
    IF updates = << >> THEN p
    ELSE ApplyUpdates(update_on_accept(p, Head(updates)), Tail(updates))

\* What one pass of the loop did: the decide call, the submit calls, the
\* update_on_accept calls, and whether it ended with an exception.
LoopCall(p, admitted_count, attributes, accept, submits, updates, raised) ==
    [kind |-> "loop",
     attributes |-> attributes,
     admitted_count |-> admitted_count,
     helpful |-> IsHelpful(p, attributes),
     S |-> SumValues(remaining_needed(p)),
     R |-> p.capacity - admitted_count,
     accept |-> accept,
     submits |-> submits,
     updates |-> updates,
     raised |-> raised]

\* One pass of the loop on a running response: decide, log the request,
\* submit (resubmitting once at the expected index on a mismatch),
\* update_on_accept, log response and progress. An exception other than a
\* first mismatch ends the run.
LoopRunning ==
    /\ pc = "running"
    /\ resp.status = "running"
    /\ arrivals < MaxSteps
    /\ \E attributes \in AttrVectors, mismatch \in BOOLEAN,
          result \in Statuses \cup {"error"}, applied \in BOOLEAN :
          LET d == decide(policy, resp.admittedCount, attributes)
              accept == d.accept
              next_index == resp.personIndex + 1
              request == RequestRecord(Scenario, next_index, resp.personIndex,
                                       attributes, accept)
              resync == IF mismatch THEN <<ResyncRecord(Scenario, up.index, next_index)>>
                        ELSE << >>
              new_up == UpApply(up, accept)
              new_resp == UpResponse(new_up, result)
              updates == Updates(accept, result = "error", attributes)
              p == ApplyUpdates(d.policy, updates)
          IN  /\ mismatch => resyncs < MaxResyncs
              /\ (result # "error" \/ mismatch) => applied
              /\ admitted' = resp.admittedCount
              /\ rejected' = resp.rejectedCount
              /\ last' = LoopCall(policy, resp.admittedCount, attributes, accept,
                                   Submits(next_index, accept, mismatch, up.index),
                                   updates,
                                   result = "error")
              /\ arrivals' = arrivals + 1
              /\ resyncs' = IF mismatch THEN resyncs + 1 ELSE resyncs
              /\ IF result = "error"
                 THEN /\ policy' = p
                      /\ up' = IF applied /\ ~mismatch THEN new_up ELSE up
                      /\ log' = log \o <<request>> \o resync
                      /\ pc' = "raised"
                      /\ outcome' = Raised("ApiError", "submit failed")
                      /\ UNCHANGED <<resp, step>>
                 ELSE /\ policy' = p
                      /\ up' = new_up
                      /\ resp' = new_resp
                      /\ step' = step + 1
                      /\ log' = log \o <<request>> \o resync
                                    \o StepLog(step + 1, resp.admittedCount,
                                               resp.rejectedCount, new_resp, p,
                                               accept, resp.personIndex)
                      /\ pc' = "running"
                      /\ UNCHANGED outcome
    /\ UNCHANGED <<log_interval, recon, recon_runs, live>>

(* ------------------------- resume_game: priming ------------------------ *)

\* The replay loop over the first n events of the log: the policy after it.
RECURSIVE Replay(_, _, _)
Replay(p, events, n) ==
    IF n = 0 THEN p
    ELSE LET rec == events[n]
             q == Replay(p, events, n - 1)
         IN  IF rec.event = "request"
             THEN LET helpful == IsHelpful(q, rec.decide_for_attrs)
                      r == record_observation(q, helpful)
                  IN  IF rec.accept
                      THEN [r EXCEPT !.accepted_attribute_counts =
                                        AddAttrs(@, rec.decide_for_attrs)]
                      ELSE r
             ELSE q

\* resume_game from a log, up to the first call to the upstream: the policy
\* it builds and primes. The tunables are those of the interrupted run.
resume_policy(policy_name, state) ==
    LET fresh == MakePolicy(policy_name, state.constraints, state.capacity,
                            state.prior_freqs, state.correlations)
        primed == Replay(fresh, state.events, Len(state.events))
    IN  [primed EXCEPT !.accepted_attribute_counts =
            [a \in Attr |-> Max(@[a], state.accepted_counts[a])]]

\* The process was killed between two passes of the loop while the game was
\* running, or ended with an exception, and resume_game is run on its log:
\* reconstruct, build the policy, replay.
Resume ==
    /\ \/ pc = "running" /\ resp.status = "running"
       \/ pc = "raised"
    /\ recon' = reconstruct_from_log(log)
    /\ recon_runs' = recon_runs + 1
    /\ log' = LogAfterRead(log)
    /\ live' = policy
    /\ IF recon'.ok
       THEN /\ policy' = resume_policy(policy.name, recon')
            /\ pc' = "resumed"
            /\ outcome' = NoOutcome
       ELSE /\ policy' = policy
            /\ pc' = "resume-error"
            /\ outcome' = Raised("RuntimeError", recon'.error)
    /\ UNCHANGED <<admitted, arrivals, last, resp, rejected, step, up,
                   log_interval, resyncs>>

Next ==
    \/ RunGameStart
    \/ LoopFailed
    \/ LoopCompleted
    \/ LoopRunning
    \/ Resume

Spec == Init /\ [][Next]_vars


(* ------------- _reconstruct_from_log on the logs a file can hold ------- *)

MaxLogLen == 3
MaxReconRuns == 2

\* The lines a log file may hold: records of every kind JsonLinesLogger
\* writes, of one session or another, and lines that are not records.
LogLines ==
    {StartRecord(Scenario, g, c, [a \in {"A"} |-> 2], EmptyDict, EmptyDict) :
        g \in {GameId}, c \in {1000}}
    \cup {StartRecord(Scenario + 1, "g-456", 2, NoCounts, EmptyDict, EmptyDict)}
    \cup {RequestRecord(Scenario, i + 1, i, attrs, accept) :
            i \in 0..1, attrs \in {{}, {"A"}}, accept \in BOOLEAN}
    \cup {ResponseRecord(Scenario, 1, 0, "running", n) : n \in {Null, 1, 3}}
    \cup {ResyncRecord(Scenario, 2, 1), MalformedLine, NonObjectLine}

LogInit ==
    /\ policy = NoPolicy
    /\ admitted = 0
    /\ arrivals = 0
    /\ last = NoCall
    /\ pc = "writing"
    /\ resp = NoResponse
    /\ rejected = 0
    /\ step = 0
    /\ up = NoUpstream
    /\ log = << >>
    /\ log_interval = 0
    /\ resyncs = 0
    /\ recon = NoState
    /\ recon_runs = 0
    /\ live = NoPolicy
    /\ outcome = NoOutcome

\* One more line is appended to the file.
WriteLine ==
    /\ pc = "writing"
    /\ Len(log) < MaxLogLen
    /\ \E rec \in LogLines : log' = Append(log, rec)
    /\ UNCHANGED <<polVars, pc, resp, rejected, step, up, log_interval, resyncs,
                   recon, recon_runs, live, outcome>>

\* _reconstruct_from_log runs on the file, a first time or once more.
Reconstruct ==
    /\ pc \in {"writing", "reconstructed"}
    /\ recon_runs < MaxReconRuns
    /\ recon' = reconstruct_from_log(log)
    /\ recon_runs' = recon_runs + 1
    /\ log' = LogAfterRead(log)
    /\ pc' = "reconstructed"
    /\ UNCHANGED <<polVars, resp, rejected, step, up, log_interval, resyncs, live,
                   outcome>>

LogNext ==
    \/ WriteLine
    \/ Reconstruct

SpecLog == LogInit /\ [][LogNext]_vars


(* ------------- a policy instance driven through its interface ---------- *)

\* Calls made on one policy instance.
MaxCalls == 3

PolicyInit ==
    /\ \E policy_name \in PolicyNames, mc \in SessionConstraintMaps,
          cap \in {1, MaxSessionCapacity} :
          policy = MakePolicy(policy_name, mc, cap, RelativeFrequencies, EmptyDict)
    /\ admitted = 0
    /\ arrivals = 0
    /\ last = NoCall
    /\ pc = "policy"
    /\ resp = NoResponse
    /\ rejected = 0
    /\ step = 0
    /\ up = NoUpstream
    /\ log = << >>
    /\ log_interval = 0
    /\ resyncs = 0
    /\ recon = NoState
    /\ recon_runs = 0
    /\ live = NoPolicy
    /\ outcome = NoOutcome

\* policy.decide(admitted_count, attributes), with any admitted count.
PolicyDecide ==
    /\ step < MaxCalls
    /\ \E attributes \in AttrVectors, admitted_count \in 0..policy.capacity :
          LET d == decide(policy, admitted_count, attributes)
          IN  /\ last' = Call("decide", policy, admitted_count, attributes, d.accept)
              /\ policy' = d.policy
    /\ step' = step + 1
    /\ arrivals' = arrivals + 1
    /\ UNCHANGED <<admitted, pc, resp, rejected, up, log, log_interval, resyncs,
                   recon, recon_runs, live, outcome>>

\* policy.update_on_accept(attributes)
PolicyUpdateOnAccept ==
    /\ step < MaxCalls
    /\ \E attributes \in AttrVectors :
          /\ last' = [kind |-> "update_on_accept", attributes |-> attributes]
          /\ policy' = update_on_accept(policy, attributes)
    /\ step' = step + 1
    /\ UNCHANGED <<admitted, arrivals, pc, resp, rejected, up, log, log_interval,
                   resyncs, recon, recon_runs, live, outcome>>

\* policy.record_observation(helpful)
PolicyRecordObservation ==
    /\ step < MaxCalls
    /\ \E helpful \in BOOLEAN :
          /\ last' = [kind |-> "record_observation", helpful |-> helpful]
          /\ policy' = record_observation(policy, helpful)
    /\ step' = step + 1
    /\ UNCHANGED <<admitted, arrivals, pc, resp, rejected, up, log, log_interval,
                   resyncs, recon, recon_runs, live, outcome>>

PolicyNext ==
    \/ PolicyDecide
    \/ PolicyUpdateOnAccept
    \/ PolicyRecordObservation

SpecPolicy == PolicyInit /\ [][PolicyNext]_vars


(* --------------------- resume_game on a given log ---------------------- *)

\* Lines of the log file resume_game is pointed at.
MaxResumeLogLen == 3

\* The lines such a file is made of.
ResumeLines ==
    {StartRecord(Scenario, GameId, MaxSessionCapacity, [a \in {"A"} |-> SessionMin],
                 RelativeFrequencies, Correlations),
     RequestRecord(Scenario, 1, 0, {"A"}, TRUE),
     RequestRecord(Scenario, 1, 0, {}, FALSE),
     ResponseRecord(Scenario, 0, 0, "running", 1),
     ResponseRecord(Scenario, 0, 0, "completed", Null),
     MalformedLine}

ResumeInit ==
    /\ log \in UNION {[1..n -> ResumeLines] : n \in 0..MaxResumeLogLen}
    /\ policy = NoPolicy
    /\ admitted = 0
    /\ arrivals = 0
    /\ last = NoCall
    /\ pc = "resume"
    /\ resp = NoResponse
    /\ rejected = 0
    /\ step = 0
    /\ up = NoUpstream
    /\ log_interval \in {1, MaxLogInterval}
    /\ resyncs = 0
    /\ recon = NoState
    /\ recon_runs = 0
    /\ live = NoPolicy
    /\ outcome = NoOutcome

\* What resume_game did before its loop: the submit calls it made and
\* whether it ended with an exception.
ResumeCall(submits, raised) ==
    [kind |-> "resume", submits |-> submits, raised |-> raised]

\* resume_game up to its loop: reconstruct the state from the log (an error
\* ends the run there), build and prime the policy, open the log of the
\* resumed run (by default a new file) with a start record, and resend the
\* last logged decision at the reconstructed index, resubmitting once at the
\* expected index on a mismatch.
ResumeGame ==
    /\ pc = "resume"
    /\ recon' = reconstruct_from_log(log)
    /\ recon_runs' = recon_runs + 1
    /\ IF ~recon'.ok
       THEN /\ pc' = "resume-error"
            /\ last' = ResumeCall(<< >>, TRUE)
            /\ outcome' = Raised("RuntimeError", recon'.error)
            /\ log' = LogAfterRead(log)
            /\ UNCHANGED <<policy, resp, up, resyncs>>
       ELSE \E policy_name \in PolicyNames, mismatch \in BOOLEAN,
               result \in Statuses \cup {"error"} :
               LET state == recon'
                   start == StartRecord(state.scenario, state.game_id,
                                        state.capacity, state.constraints,
                                        EmptyDict, EmptyDict)
                   resync == IF mismatch
                             THEN <<ResyncRecord(state.scenario, up.index,
                                                 state.next_index)>>
                             ELSE << >>
                   new_up == UpApply(up, state.prev_accept)
               IN  /\ policy' = resume_policy(policy_name, state)
                   /\ last' = ResumeCall(Submits(state.next_index, state.prev_accept,
                                                 mismatch, up.index),
                                         result = "error")
                   /\ log' = <<start>> \o resync
                   /\ resyncs' = IF mismatch THEN resyncs + 1 ELSE resyncs
                   /\ IF result = "error"
                      THEN /\ pc' = "raised"
                           /\ outcome' = Raised("ApiError", "submit failed")
                           /\ UNCHANGED <<resp, up>>
                      ELSE /\ pc' = "running"
                           /\ outcome' = NoOutcome
                           /\ up' = new_up
                           /\ resp' = UpResponse(new_up, result)
    /\ UNCHANGED <<admitted, arrivals, rejected, step, log_interval, live>>

ResumeNext == ResumeGame

SpecResume == ResumeInit /\ [][ResumeNext]_vars


(* ====================================================================== *)
(*                              Claims                                    *)
(* ====================================================================== *)

\* The last call was an arrival the policy accepted although it was not helpful.
AcceptedNonHelpful ==
    /\ last.kind = "arrive"
    /\ last.accept
    /\ ~last.helpful

C2_FeasibilityKept ==
    SumValues(policy.min_counts) <= policy.capacity =>
        /\ SumValues(remaining_needed(policy)) <= policy.capacity - admitted
        /\ admitted <= policy.capacity
        /\ admitted = policy.capacity =>
              \A a \in DOMAIN policy.min_counts : remaining_needed(policy)[a] = 0

\* The venue is full after accepted arrivals (the last one filling it) and
\* some minimum had to be met.
C2_Witness ==
    /\ SumValues(policy.min_counts) <= policy.capacity
    /\ SumValues(policy.min_counts) >= 2
    /\ last.kind = "arrive"
    /\ last.accept
    /\ admitted = policy.capacity

\* C5: whenever decide returns true for a non-helpful candidate, every
\* attribute's remaining_needed is <= the remaining capacity after that
\* accept (capacity - admitted_count - 1).
C5_NoMinimumUnreachable ==
    (last.kind \in {"arrive", "probe"} /\ last.accept /\ ~last.helpful) =>
        \A a \in DOMAIN policy.min_counts :
            remaining_needed(policy)[a]
                <= policy.capacity - last.admitted_count - 1

\* A non-helpful candidate accepted while some attribute still needs exactly
\* as many candidates as there are slots after the accept.
C5_Witness ==
    /\ last.kind \in {"arrive", "probe"}
    /\ last.accept
    /\ ~last.helpful
    /\ \E a \in DOMAIN policy.min_counts :
          /\ remaining_needed(policy)[a] > 0
          /\ remaining_needed(policy)[a]
                = policy.capacity - last.admitted_count - 1

\* C6: decide returns true for every helpful candidate whatever the
\* admitted_count, true for a non-helpful candidate when there is slack
\* (S < R), and false for a non-helpful candidate whenever S >= R.
C6_DecideRule ==
    last.kind \in {"arrive", "probe"} =>
        /\ last.helpful => last.accept
        /\ (~last.helpful /\ last.S < last.R) => last.accept
        /\ (~last.helpful /\ last.S >= last.R) => ~last.accept

\* The unit test's last call: min_counts {A: 2, B: 1}, capacity 5, one A
\* accepted, decide(admitted_count = 3, {}) returns false (S = 2 >= R = 2).
C6_Witness ==
    /\ last.kind = "probe"
    /\ policy.capacity = 5
    /\ policy.min_counts = [a \in Attr |-> IF a = "A" THEN 2 ELSE 1]
    /\ policy.accepted_attribute_counts = [a \in Attr |-> IF a = "A" THEN 1 ELSE 0]
    /\ last.admitted_count = 3
    /\ last.attributes = {}
    /\ last.S = 2 /\ last.R = 2
    /\ ~last.accept

(* ------------------------- resume and the log -------------------------- *)

\* The estimator state of a policy instance.
Estimator(p) ==
    CASE p.name = "window" -> <<p.window_helpful>>
      [] p.name = "ewma" -> <<p.p_hat, p.n_obs>>
      [] p.name = "attr-ewma" -> <<p.p_hat, p.n_obs>>
      [] OTHER -> << >>

\* The request records of the log, in file order.
Requests(l) == SelectSeq(l, LAMBDA rec : rec.event = "request")

\* Every request of the log was applied by the live policy: the run was not
\* cut between writing a request record and update_on_accept.
AllApplied == arrivals = step

\* C3: after resume_game has replayed the log of a live run, the resumed
\* policy's estimator state equals the estimator state of the live instance
\* after the same decisions, for every policy variant.
C3_EstimatorRestored ==
    pc = "resumed" => Estimator(policy) = Estimator(live)

\* The variants whose record_observation feeds the estimator are restored.
C3_WindowAndEwmaRestored ==
    (pc = "resumed" /\ policy.name # "attr-ewma") =>
        Estimator(policy) = Estimator(live)

\* C4: after resume_game has replayed the log of a live run, the policy's
\* accepted_attribute_counts and remaining_needed equal those the live policy
\* held once the logged decisions were applied: one per true attribute of
\* every accepted request and nothing for a rejected one.
C4_CountsRestored ==
    pc = "resumed" =>
        LET applied == IF AllApplied \/ ~last.accept
                       THEN live.accepted_attribute_counts
                       ELSE AddAttrs(live.accepted_attribute_counts,
                                     last.attributes)
        IN  /\ policy.accepted_attribute_counts = applied
            /\ recon.accepted_counts = applied
            /\ AllApplied => remaining_needed(policy) = remaining_needed(live)
            /\ \A a \in Attr :
                  applied[a] = Cardinality({i \in 1..Len(Requests(log)) :
                                   /\ Requests(log)[i].accept
                                   /\ a \in Requests(log)[i].decide_for_attrs})

\* A resume from a log of two applied requests, the first rejected and the
\* second accepted with a true attribute.
C4_Witness ==
    /\ pc = "resumed"
    /\ AllApplied
    /\ Len(Requests(log)) = 2
    /\ ~Requests(log)[1].accept
    /\ Requests(log)[1].decide_for_attrs # {}
    /\ Requests(log)[2].accept
    /\ Requests(log)[2].decide_for_attrs # {}
    /\ SumValues(policy.accepted_attribute_counts) > 0

\* C7: for every log the live loop wrote, reconstruction yields next_index and
\* prev_accept of the same, most recent decision: next_index is the last
\* logged request's decide_for_index + 1 and prev_accept its accept flag.
C7_SameDecision ==
    (pc = "resumed" /\ Requests(log) # << >>) =>
        LET rq == Requests(log)[Len(Requests(log))]
        IN  /\ recon.next_index = rq.decide_for_index + 1
            /\ recon.prev_accept = rq.accept

\* C8: from a log of records and unparseable lines, with a start record and
\* request and response records after it, reconstruction returns the start
\* record's session id, scenario, capacity and constraints, next_index from
\* the last response's
\* next_person_index when that is non-null and otherwise from the last
\* request's send_person_index, and prev_accept from the last request.
C8_Reconstruction ==
    (pc = "reconstructed" /\ ~HasNonObject(log)) =>
        \A i, q \in 1..Len(log) :
            ( /\ log[i].event = "start"
              /\ \A j \in (i + 1)..Len(log) : log[j].event # "start"
              /\ q > i
              /\ log[q].event = "request"
              /\ \A j \in (q + 1)..Len(log) : log[j].event # "request" )
            =>
            /\ recon.ok
            /\ recon.game_id = log[i].gameId
            /\ recon.scenario = log[i].scenario
            /\ recon.capacity = log[i].capacity
            /\ recon.constraints = log[i].constraints
            /\ recon.prev_accept = log[q].accept
            /\ \A r \in (i + 1)..Len(log) :
                  ( /\ log[r].event = "response"
                    /\ \A j \in (r + 1)..Len(log) : log[j].event # "response"
                    /\ log[r].next_person_index # Null )
                  => recon.next_index = log[r].next_person_index
            /\ ( \A r \in (i + 1)..Len(log) :
                    ( /\ log[r].event = "response"
                      /\ \A j \in (r + 1)..Len(log) : log[j].event # "response" )
                    => log[r].next_person_index = Null )
               => recon.next_index = log[q].send_person_index

\* The log of the test: one start (constraints A:2, capacity 1000, session
\* g-123), one accepted request with A true, one response with next index 1;
\* reconstruction gave next_index 1, prev_accept true, session g-123.
C8_Witness ==
    /\ pc = "reconstructed"
    /\ log = <<StartRecord(Scenario, GameId, 1000, [a \in {"A"} |-> 2],
                           EmptyDict, EmptyDict),
               RequestRecord(Scenario, 1, 0, {"A"}, TRUE),
               ResponseRecord(Scenario, 1, 0, "running", 1)>>
    /\ recon.ok
    /\ recon.next_index = 1
    /\ recon.prev_accept
    /\ recon.game_id = "g-123"
    /\ recon.accepted_counts["A"] = 1

C10_CountsMatchDecisions ==
    \A i \in 1..Len(log) :
        /\ log[i].event = "progress" =>
              log[i].admitted + log[i].rejected = log[i].step
        /\ (log[i].event = "response" /\ i < Len(log)
                /\ log[i + 1].event = "progress") =>
              log[i].admitted + log[i].rejected = log[i + 1].step

(* ------------------------- the session loop ---------------------------- *)

\* C11: in every reachable state of a session the admitted count is at most
\* capacity: the controller never submits an accept when the admitted count
\* it was told has already reached capacity.
C11_AdmittedWithinCapacity ==
    /\ up.admitted <= policy.capacity
    /\ (last.kind = "loop" /\ last.accept) => last.admitted_count < policy.capacity

\* The attribute-aware variant returns false as soon as no slot is left.
C11_AttrEwmaWithinCapacity ==
    (policy.name = "attr-ewma" /\ last.kind = "loop" /\ last.accept) =>
        last.admitted_count < policy.capacity

(* ----------------------- the policy interface -------------------------- *)

\* C12: for every policy variant and every constrained attribute a,
\* remaining_needed()[a] never rises: no decide, update_on_accept or
\* record_observation call makes it larger than it was before the call.
C12_RemainingNonIncreasing ==
    [][\A a \in DOMAIN policy.min_counts :
          /\ a \in DOMAIN policy'.min_counts
          /\ remaining_needed(policy')[a] <= remaining_needed(policy)[a]]_vars

\* An update_on_accept call, after earlier calls, has lowered the remaining
\* need of a constrained attribute.
C12_Witness ==
    /\ pc = "policy"
    /\ step >= 2
    /\ last.kind = "update_on_accept"
    /\ \E a \in DOMAIN policy.min_counts :
          /\ a \in last.attributes
          /\ remaining_needed(policy)[a] < policy.min_counts[a]

\* The resync records among the records appended by a step.
NewResyncs(before, after) ==
    SelectSeq(SubSeq(after, Len(before) + 1, Len(after)),
              LAMBDA rec : rec.event = "resync")

\* C13: a pass of the loop submits its decision once; when that submit fails
\* with an index mismatch it resubmits the same decision exactly once, at the
\* index the upstream reported as expected, and a failure of that retry ends
\* the run; a mismatch on a later pass is retried once again.
C13_ResyncOnce ==
    [][arrivals' = arrivals + 1 =>
          LET c == last'
              rs == NewResyncs(log, log')
              first == Submit(resp.personIndex + 1, c.accept)
          IN  /\ Len(rs) <= 1
              /\ Len(rs) = 0 => c.submits = <<first>>
              /\ Len(rs) = 1 =>
                    /\ rs[1].got = resp.personIndex + 1
                    /\ c.submits = <<first, Submit(rs[1].expected, c.accept)>>
              /\ c.raised <=> pc' = "raised"
              /\ ~c.raised => pc' = "running"]_vars

\* Two passes met an index mismatch: the first was retried and went on, the
\* second was retried and the retry failed, which ended the run.
C13_Witness ==
    /\ pc = "raised"
    /\ resyncs = 2
    /\ step = 1
    /\ arrivals = 2
    /\ Len(last.submits) = 2
    /\ last.raised

(* ---------------------------- resume_game ------------------------------ *)

\* The log has no start record.
NoStartRecord(l) == \A i \in 1..Len(l) : l[i].event # "start"

\* After its last start record the log has no request record and no response
\* record carrying a next index.
NoResumePoint(l) ==
    \E i \in 1..Len(l) :
        /\ l[i].event = "start"
        /\ \A j \in (i + 1)..Len(l) :
              /\ l[j].event # "start"
              /\ l[j].event # "request"
              /\ l[j].event = "response" => l[j].next_person_index = Null

\* C14: resume_game on a log without a start record, or with a start record
\* but no request and no response carrying a next index, ends with the
\* reconstruction error, and it has made no call to the upstream.
C14_ReconstructionError ==
    [][(pc = "resume" /\ (NoStartRecord(log) \/ NoResumePoint(log))) =>
          /\ pc' = "resume-error"
          /\ ~recon'.ok
          /\ NoStartRecord(log) => recon'.error = "No start event found in log"
          /\ NoResumePoint(log) =>
                recon'.error = "No request/response events to infer next index"
          /\ last'.submits = << >>
          /\ last'.raised
          /\ up' = up
          /\ resp' = resp]_vars

\* resume_game ended with the reconstruction error on a log that has a start
\* record followed only by a response without a next index and a line that
\* is not JSON.
C14_Witness ==
    /\ pc = "resume-error"
    /\ Len(log) = 3
    /\ log[1].event = "start"
    /\ log[2].event = "response"
    /\ log[3] = MalformedLine
    /\ recon.error = "No request/response events to infer next index"
    /\ last.submits = << >>

(* ------------------------ lines that are not records ------------------- *)

\* The log without its lines that are not well-formed records.
WellFormedLines(l) ==
    SelectSeq(l, LAMBDA rec : rec # MalformedLine /\ rec # NonObjectLine)

\* C15: a line that is not a well-formed record never makes reconstruction
\* fail: the result equals the reconstruction of the log without such lines.
C15_MalformedSkipped ==
    pc = "reconstructed" =>
        LET clean == reconstruct_from_log(WellFormedLines(log))
        IN  IF clean.ok THEN recon = clean ELSE ~recon.ok

\* Lines json.loads cannot parse are skipped.
C15_UnparseableSkipped ==
    (pc = "reconstructed" /\ ~HasNonObject(log)) =>
        recon = reconstruct_from_log(WellFormedLines(log))

(* ------------------------- terminal responses -------------------------- *)

\* C16: on a failed response the controller appends a failed record and
\* raises an error, both carrying the upstream's reason, without a decide
\* call, a submit or a retry; nothing is done after the raise.
C16_FailedIsFatal ==
    [][/\ pc # "failed"
       /\ (pc = "running" /\ resp.status = "failed") =>
             /\ pc' = "failed"
             /\ outcome' = [type |-> "RuntimeError", message |-> "Game failed",
                          reason |-> resp.reason]
             /\ Len(log') = Len(log) + 1
             /\ SubSeq(log', 1, Len(log)) = log
             /\ log'[Len(log')].event = "failed"
             /\ log'[Len(log')].reason = resp.reason
             /\ UNCHANGED <<policy, last, arrivals, step, up, resp, resyncs>>]_vars

\* The upstream answered a submitted decision with failed, and the run has
\* logged the failure and raised.
C16_Witness ==
    /\ pc = "failed"
    /\ step >= 1
    /\ resp.status = "failed"
    /\ outcome.type = "RuntimeError"
    /\ outcome.reason = resp.reason
    /\ log[Len(log)].event = "failed"

\* C17: on a completed response the run returns the upstream's final
\* rejected count and the policy's remaining_needed() of that moment, and the
\* completed record it appends carries that same vector, with
\* constraints_satisfied true iff every entry is 0.
C17_CompletedOutcome ==
    [][(pc = "running" /\ resp.status = "completed") =>
          LET rem == [a \in DOMAIN policy.min_counts |->
                         IF policy.min_counts[a] > policy.accepted_attribute_counts[a]
                         THEN policy.min_counts[a] - policy.accepted_attribute_counts[a]
                         ELSE 0]
              rec == log'[Len(log')]
          IN  /\ pc' = "returned"
              /\ outcome' = [type |-> "return", rejected |-> resp.rejectedCount,
                             remaining |-> rem]
              /\ Len(log') = Len(log) + 1
              /\ SubSeq(log', 1, Len(log)) = log
              /\ rec.event = "completed"
              /\ rec.rejected = resp.rejectedCount
              /\ rec.remaining = rem
              /\ rec.constraints_satisfied = (\A a \in DOMAIN rem : rem[a] = 0)
              /\ UNCHANGED <<policy, last, arrivals, step, up, resp>>]_vars

\* A run returned on completed with one constrained attribute filled and
\* another still needed: the record says the constraints are not satisfied.
C17_Witness ==
    /\ pc = "returned"
    /\ outcome.type = "return"
    /\ log[Len(log)].event = "completed"
    /\ ~log[Len(log)].constraints_satisfied
    /\ \E a, b \in DOMAIN outcome.remaining :
          /\ outcome.remaining[a] = 0
          /\ outcome.remaining[b] > 0
    /\ outcome.rejected >= 1

\* The accepted counts after one more accepted candidate with these attributes.
CountsPlus(counts, attributes) ==
    [a \in Attr |-> IF a \in attributes THEN counts[a] + 1 ELSE counts[a]]

\* The number of observations the estimator of a policy has taken in.
Observations(p) ==
    CASE p.name = "window" -> Len(p.window_helpful)
      [] p.name = "ewma" -> p.n_obs
      [] p.name = "attr-ewma" -> p.n_obs
      [] OTHER -> 0

\* C18: a pass of the loop calls decide once for its candidate, and
\* update_on_accept once when decide returned true and the submit succeeded
\* (with or without a resync); it does not call it when decide returned
\* false, so the accepted counts change exactly once per accepted candidate.
C18_OneUpdatePerAccept ==
    [][arrivals' = arrivals + 1 =>
          LET c == last'
              counts == policy.accepted_attribute_counts
          IN  /\ c.updates = IF c.accept /\ ~c.raised
                             THEN <<c.attributes>> ELSE << >>
              /\ policy'.accepted_attribute_counts =
                    IF c.accept /\ ~c.raised
                    THEN CountsPlus(counts, c.attributes) ELSE counts
              /\ policy.name \in {"ewma", "attr-ewma"} =>
                    Observations(policy') = Observations(policy) + 1
              /\ policy.name = "window" =>
                    Observations(policy') =
                        Min(Observations(policy) + 1, policy.window_size)
              /\ step' = IF c.raised THEN step ELSE step + 1]_vars

\* An accepted candidate whose submit needed a resync was counted once, after
\* an earlier candidate that added nothing to the counts.
C18_Witness ==
    /\ pc = "running"
    /\ step = 2
    /\ resyncs = 1
    /\ last.accept
    /\ last.attributes # {}
    /\ Len(last.submits) = 2
    /\ last.updates = <<last.attributes>>
    /\ SumValues(policy.accepted_attribute_counts) = Cardinality(last.attributes)

\* The configuration and estimator state of a policy: every field but the
\* accepted counts.
WithoutCounts(p) == [p EXCEPT !.accepted_attribute_counts = NoCounts]

\* C19: for every policy variant, update_on_accept(attrs) raises the accepted
\* count of each attribute that is true in attrs by exactly 1 and leaves the
\* count of every other attribute, the estimator state and the configuration
\* unchanged.
C19_UpdateOnAcceptFrame ==
    [][(pc = "policy" /\ last'.kind = "update_on_accept") =>
          /\ \A a \in Attr :
                policy'.accepted_attribute_counts[a] =
                    IF a \in last'.attributes
                    THEN policy.accepted_attribute_counts[a] + 1
                    ELSE policy.accepted_attribute_counts[a]
          /\ WithoutCounts(policy') = WithoutCounts(policy)]_vars

\* update_on_accept with one true attribute was called on a window policy
\* whose window already holds an observation.
C19_Witness ==
    /\ pc = "policy"
    /\ last.kind = "update_on_accept"
    /\ Cardinality(last.attributes) = 1
    /\ policy.name = "window"
    /\ policy.window_helpful # << >>
    /\ \E a \in Attr : policy.accepted_attribute_counts[a] = 0

\* C20: for every policy variant and every reachable state, remaining_needed()
\* has one entry per constrained attribute, equal to
\* max(0, minimum - accepted count): it is never negative, also when more
\* candidates with the attribute were accepted than its minimum.
C20_RemainingNeededDerived ==
    pc = "policy" =>
        /\ DOMAIN remaining_needed(policy) = DOMAIN policy.min_counts
        /\ \A a \in DOMAIN policy.min_counts :
              /\ remaining_needed(policy)[a] >= 0
              /\ remaining_needed(policy)[a] =
                    IF policy.min_counts[a] > policy.accepted_attribute_counts[a]
                    THEN policy.min_counts[a] - policy.accepted_attribute_counts[a]
                    ELSE 0

\* More candidates with a constrained attribute were accepted than its
\* minimum, and its remaining need is 0.
C20_Witness ==
    /\ pc = "policy"
    /\ \E a \in DOMAIN policy.min_counts :
          /\ policy.accepted_attribute_counts[a] > policy.min_counts[a]
          /\ remaining_needed(policy)[a] = 0

(* --------------------- construction of a policy ------------------------ *)

\* An Optional argument: None, or a value.
None == << >>

Some(v) == <<v>>

\* utils.validate_param: the ValueError it raises, or NoOutcome when the
\* value passes (a None value is skipped).
validate_param(name, value, min_val, max_val, min_exclusive) ==
    IF value = None THEN NoOutcome
    ELSE IF min_val # None /\ min_exclusive /\ value[1] <= min_val[1]
         THEN Raised("ValueError", [name |-> name, must_be |-> ">", limit |-> min_val[1], got |-> value[1]])
    ELSE IF min_val # None /\ ~min_exclusive /\ value[1] < min_val[1]
         THEN Raised("ValueError", [name |-> name, must_be |-> ">=", limit |-> min_val[1], got |-> value[1]])
    ELSE IF max_val # None /\ value[1] > max_val[1]
         THEN Raised("ValueError", [name |-> name, must_be |-> "<=", limit |-> max_val[1], got |-> value[1]])
    ELSE NoOutcome

\* What the constructor of each variant raises for the fields it was given:
\* QuotaReservePolicy has a __post_init__, the three relaxed dataclasses
\* have none.
post_init(p) ==
    CASE p.name = "reserve" ->
            validate_param("capacity", Some(p.capacity), Some(1), None, FALSE)
      [] p.name = "window" -> NoOutcome
      [] p.name = "ewma" -> NoOutcome
      [] p.name = "attr-ewma" -> NoOutcome

\* --capacity is any integer.
Capacities == {-1, 0} \cup (1..MaxSessionCapacity)

\* No session exists at the upstream yet.
NoSession == [index |-> Null, admitted |-> 0, rejected |-> 0]

\* The arguments of a run, before anything has been called.
ConfigInit ==
    /\ \E policy_name \in PolicyNames, mc \in SessionConstraintMaps, cap \in Capacities :
          last = [kind |-> "config", policy_name |-> policy_name,
                  min_counts |-> mc, capacity |-> cap]
    /\ policy = NoPolicy
    /\ admitted = 0
    /\ arrivals = 0
    /\ pc = "config"
    /\ resp = NoResponse
    /\ rejected = 0
    /\ step = 0
    /\ up = NoSession
    /\ log = << >>
    /\ log_interval = 0
    /\ resyncs = 0
    /\ recon = NoState
    /\ recon_runs = 0
    /\ live = NoPolicy
    /\ outcome = NoOutcome

\* The constructor call: the instance, or the exception of __post_init__.
Construct(next_pc) ==
    LET p == MakePolicy(last.policy_name, last.min_counts, last.capacity,
                        RelativeFrequencies, EmptyDict)
    IN  IF post_init(p) # NoOutcome
        THEN /\ outcome' = post_init(p)
             /\ pc' = "raised"
             /\ UNCHANGED policy
        ELSE /\ policy' = p
             /\ pc' = next_pc
             /\ UNCHANGED outcome

\* A policy constructed on its own, as the unit tests do.
ConfigConstruct ==
    /\ pc = "config"
    /\ Construct("constructed")
    /\ UNCHANGED <<admitted, arrivals, last, resp, rejected, step, up, log,
                   log_interval, resyncs, recon, recon_runs, live>>

\* run_game: client.new_game(scenario, player_id) opens the session.
ConfigNewGame ==
    /\ pc = "config"
    /\ up' = NoUpstream
    /\ pc' = "new_game"
    /\ UNCHANGED <<policy, admitted, arrivals, last, resp, rejected, step, log,
                   log_interval, resyncs, recon, recon_runs, live, outcome>>

\* run_game: the policy is constructed from the constraints new_game returned.
ConfigRunGameConstruct ==
    /\ pc = "new_game"
    /\ Construct("init")
    /\ UNCHANGED <<admitted, arrivals, last, resp, rejected, step, up, log,
                   log_interval, resyncs, recon, recon_runs, live>>

\* run_game: the first person is fetched with the policy in place.
ConfigFirstPerson ==
    /\ pc = "init"
    /\ \E status \in Statuses : resp' = UpResponse(up, status)
    /\ pc' = "running"
    /\ UNCHANGED <<policy, admitted, arrivals, last, rejected, step, up, log,
                   log_interval, resyncs, recon, recon_runs, live, outcome>>

ConfigNext ==
    \/ ConfigConstruct
    \/ ConfigNewGame
    \/ ConfigRunGameConstruct
    \/ ConfigFirstPerson

SpecConfig == ConfigInit /\ [][ConfigNext]_vars

\* C21: constructing any of the four policy variants with a non-positive
\* capacity is rejected with a configuration error at construction time, and
\* in run_game the rejection happens before any session is started with the
\* upstream.
C21_NonPositiveCapacityRejected ==
    (last.kind = "config" /\ last.capacity <= 0) =>
        /\ policy = NoPolicy
        /\ pc \notin {"constructed", "init", "running"}
        /\ pc = "raised" => /\ outcome.type = "ValueError"
                            /\ up = NoSession

\* Only QuotaReservePolicy rejects a capacity below 1, and it does so when
\* constructed: no instance exists and the ValueError names the capacity.
C21_ReserveRejected ==
    (last.kind = "config" /\ last.policy_name = "reserve" /\ last.capacity <= 0) =>
        /\ policy = NoPolicy
        /\ pc \in {"config", "new_game", "raised"}
        /\ pc = "raised" => /\ outcome.type = "ValueError"
                            /\ outcome.message.name = "capacity"
                            /\ outcome.message.got = last.capacity

(* ------------- AttributeEwmaPolicy with gating and correlations -------- *)

\* Largest minimum count and capacity of a gated policy, calls made on it.
MaxGateMin == 2
MaxGateCapacity == 5
MaxGateCalls == 2

\* --gate-top-k: not given, or 1.
GateTopKs == {GateTopK, 1}

\* --corr-beta
CorrBetas == {CorrBeta, RInt(1)}

\* attributeStatistics.relativeFrequencies of the upstream
PriorFreqs == [Attr -> {<<1, 4>>, RInt(1)}]

GateInit ==
    /\ \E mc \in [Attr -> 1..MaxGateMin], cap \in {1, MaxGateCapacity - 2, MaxGateCapacity},
          warmup \in {0, WarmupObservations}, prior_freqs \in PriorFreqs,
          gate_top_k \in GateTopKs, correlations \in {EmptyDict, Correlations},
          corr_beta \in CorrBetas :
          policy = AttributeEwmaPolicy(mc, cap, Alpha, AttrRiskMargin, warmup,
                                       prior_freqs, gate_top_k, correlations,
                                       corr_beta, CorrIncludeNeg)
    /\ admitted = 0
    /\ arrivals = 0
    /\ last = NoCall
    /\ pc = "gate"
    /\ resp = NoResponse
    /\ rejected = 0
    /\ step = 0
    /\ up = NoUpstream
    /\ log = << >>
    /\ log_interval = 0
    /\ resyncs = 0
    /\ recon = NoState
    /\ recon_runs = 0
    /\ live = NoPolicy
    /\ outcome = NoOutcome

\* What a decide call on a gated policy was given, what it returned and the
\* policy it left behind.
GateCall(decided, admitted_count, attributes, accept) ==
    [kind |-> "arrive",
     attributes |-> attributes,
     admitted_count |-> admitted_count,
     accept |-> accept,
     decided |-> decided]

\* One arrival at a gated policy: decide, then update_on_accept when it
\* returned true; the admitted count grows by one per accept.
GateArrive ==
    /\ arrivals < MaxGateCalls
    /\ \E attributes \in AttrVectors :
          LET d == attr_decide(policy, admitted, attributes)
          IN  /\ last' = GateCall(d.policy, admitted, attributes, d.accept)
              /\ policy' = IF d.accept THEN update_on_accept(d.policy, attributes)
                           ELSE d.policy
              /\ admitted' = IF d.accept THEN admitted + 1 ELSE admitted
    /\ arrivals' = arrivals + 1
    /\ UNCHANGED sessVars

GateNext == GateArrive

SpecGate == GateInit /\ [][GateNext]_vars

\* The post-accept view of a decide call: counts and needs with the
\* candidate counted as accepted, and the slots left after it.
PostCount(p, attributes, a) ==
    p.accepted_attribute_counts[a] + (IF a \in attributes THEN 1 ELSE 0)

PostNeed(p, attributes, a) == Max(0, p.min_counts[a] - PostCount(p, attributes, a))

PostUnderfilled(p, attributes) ==
    {a \in DOMAIN p.min_counts : PostNeed(p, attributes, a) > 0}

PostSlots(p, admitted_count) == Max(0, Max(0, p.capacity - admitted_count) - 1)

\* The K attributes with the largest post-accept need (equal needs in the
\* order of the constraints).
TightestK(p, attributes, K) ==
    LET U == PostUnderfilled(p, attributes)
    IN  {a \in U :
            Cardinality({b \in U :
                \/ PostNeed(p, attributes, b) > PostNeed(p, attributes, a)
                \/ /\ PostNeed(p, attributes, b) = PostNeed(p, attributes, a)
                   /\ AttrIndex(b) < AttrIndex(a)}) < K}

\* The margin of a decision: risk_margin scaled by the tightest attribute.
EffectiveMargin(p, admitted_count, attributes) ==
    LET U == PostUnderfilled(p, attributes)
        R_post == PostSlots(p, admitted_count)
        max_need == CHOOSE n \in {PostNeed(p, attributes, a) : a \in U} :
                        \A a \in U : PostNeed(p, attributes, a) <= n
    IN  IF R_post = 0 THEN p.risk_margin
        ELSE RMul(p.risk_margin, RMin(RInt(1), Rat(max_need, R_post)))

\* The rate of a inflated by the average of its correlations with all the
\* other underfilled attributes, clamped to [0, 1].
InflatedRate(p, attributes, a) ==
    LET others == PostUnderfilled(p, attributes) \ {a}
        row == [b \in others |-> CorrOf(p, a, b)]
        avg == RMul(RSumOver(row, others), Rat(1, Cardinality(others)))
    IN  IF p.correlations = EmptyDict \/ others = {} THEN p.p_hat[a]
        ELSE RMin(RInt(1), RMax(RInt(0), RMul(p.p_hat[a], RAdd(RInt(1), RMul(p.corr_beta, avg)))))

\* count + rate * R_post >= minimum * (1 + margin)
ExpectationMet(p, admitted_count, attributes, a, rate) ==
    RLe(RMul(RInt(p.min_counts[a]), RAdd(RInt(1), EffectiveMargin(p, admitted_count, attributes))),
        RAdd(RInt(PostCount(p, attributes, a)), RMul(rate, RInt(PostSlots(p, admitted_count)))))

\* The case of the gate: after warmup, gate_top_k = K > 0 and more than K
\* attributes underfilled after the accept.
Gated ==
    /\ pc = "gate"
    /\ last.kind = "arrive"
    /\ last.decided.n_obs >= last.decided.warmup_observations
    /\ last.decided.gate_top_k > 0
    /\ Cardinality(PostUnderfilled(last.decided, last.attributes)) > last.decided.gate_top_k

\* C22: in AttributeEwmaPolicy after warmup, with gate_top_k = K and more
\* than K attributes underfilled, the candidate is accepted when each of
\* the K attributes with the largest post-accept need satisfies
\* count + inflated_rate * R_post >= minimum * (1 + margin), where the
\* inflated rate averages the attribute's correlations over all underfilled
\* attributes, those gated out included; the attributes gated out are not
\* checked, and the un-inflated rate need not pass.
C22_GatedAccept ==
    Gated =>
        LET p == last.decided
            checked == TightestK(p, last.attributes, p.gate_top_k)
        IN  (\A a \in checked :
                ExpectationMet(p, last.admitted_count, last.attributes, a,
                               InflatedRate(p, last.attributes, a)))
            => last.accept

\* A gated decision that accepted although the checked attribute fails the
\* check at its un-inflated rate and the attribute gated out fails its own.
C22_Witness ==
    /\ Gated
    /\ last.accept
    /\ LET p == last.decided
           checked == TightestK(p, last.attributes, p.gate_top_k)
       IN  /\ \E a \in checked :
                 /\ a \notin last.attributes
                 /\ ~ExpectationMet(p, last.admitted_count, last.attributes, a, p.p_hat[a])
                 /\ ExpectationMet(p, last.admitted_count, last.attributes, a,
                                   InflatedRate(p, last.attributes, a))
           /\ \E b \in PostUnderfilled(p, last.attributes) \ checked :
                 /\ \A a \in checked :
                       PostNeed(p, last.attributes, b) < PostNeed(p, last.attributes, a)
                 /\ ~ExpectationMet(p, last.admitted_count, last.attributes, b,
                                    InflatedRate(p, last.attributes, b))

(* ------------- the relaxed policies driven through their interface ----- *)

\* Capacity of a relaxed policy, calls made on it.
RelaxedCapacity == 4
MaxRelaxedCalls == 2

\* --window-size, --min-observations, --warmup, --risk-margin
WindowSizes == 1..WindowSize
MinObservationsSet == 0..MinObservations
WarmupObservationsSet == 0..WarmupObservations
RiskMargins == {RInt(0), RiskMargin}

RelaxedPolicies ==
    {WindowRelaxedPolicy(mc, RelaxedCapacity, ws, rm, mo) :
        mc \in SessionConstraintMaps, ws \in WindowSizes, rm \in RiskMargins,
        mo \in MinObservationsSet}
    \cup
    {EwmaRelaxedPolicy(mc, RelaxedCapacity, Alpha, rm, wo) :
        mc \in SessionConstraintMaps, rm \in RiskMargins, wo \in WarmupObservationsSet}

RelaxedInit ==
    /\ policy \in RelaxedPolicies
    /\ admitted = 0
    /\ arrivals = 0
    /\ last = NoCall
    /\ pc = "relaxed"
    /\ resp = NoResponse
    /\ rejected = 0
    /\ step = 0
    /\ up = NoUpstream
    /\ log = << >>
    /\ log_interval = 0
    /\ resyncs = 0
    /\ recon = NoState
    /\ recon_runs = 0
    /\ live = NoPolicy
    /\ outcome = NoOutcome

\* What a call on a relaxed policy was given, the policy it found and what
\* it returned.
RelaxedCall(kind, p, admitted_count, attributes, helpful, accept) ==
    [kind |-> kind,
     before |-> p,
     attributes |-> attributes,
     admitted_count |-> admitted_count,
     helpful |-> helpful,
     S |-> SumValues(remaining_needed(p)),
     R |-> p.capacity - admitted_count,
     accept |-> accept]

\* policy.decide(admitted_count, attributes), with any admitted count; arrivals
\* counts the observations recorded so far.
RelaxedDecide ==
    /\ step < MaxRelaxedCalls
    /\ \E attributes \in AttrVectors, admitted_count \in 0..(policy.capacity + 1) :
          LET d == decide(policy, admitted_count, attributes)
          IN  /\ last' = RelaxedCall("decide", policy, admitted_count, attributes,
                                     IsHelpful(policy, attributes), d.accept)
              /\ policy' = d.policy
    /\ step' = step + 1
    /\ arrivals' = arrivals + 1
    /\ UNCHANGED <<admitted, pc, resp, rejected, up, log, log_interval, resyncs,
                   recon, recon_runs, live, outcome>>

\* policy.update_on_accept(attributes)
RelaxedUpdateOnAccept ==
    /\ step < MaxRelaxedCalls
    /\ \E attributes \in AttrVectors :
          /\ last' = RelaxedCall("update_on_accept", policy, 0, attributes,
                                 IsHelpful(policy, attributes), FALSE)
          /\ policy' = update_on_accept(policy, attributes)
    /\ step' = step + 1
    /\ UNCHANGED <<admitted, arrivals, pc, resp, rejected, up, log, log_interval,
                   resyncs, recon, recon_runs, live, outcome>>

\* policy.record_observation(helpful)
RelaxedRecordObservation ==
    /\ step < MaxRelaxedCalls
    /\ \E helpful \in BOOLEAN :
          /\ last' = RelaxedCall("record_observation", policy, 0, {}, helpful, FALSE)
          /\ policy' = record_observation(policy, helpful)
    /\ step' = step + 1
    /\ arrivals' = arrivals + 1
    /\ UNCHANGED <<admitted, pc, resp, rejected, up, log, log_interval, resyncs,
                   recon, recon_runs, live, outcome>>

RelaxedNext ==
    \/ RelaxedDecide
    \/ RelaxedUpdateOnAccept
    \/ RelaxedRecordObservation

SpecRelaxed == RelaxedInit /\ [][RelaxedNext]_vars

\* C23: WindowRelaxedPolicy and EwmaRelaxedPolicy never accept a non-helpful
\* candidate when S >= R, with S = sum(remaining_needed) and
\* R = capacity - admitted_count, whatever the estimator, the window, the
\* risk margin and the warmup setting.
C23_SafetyFloor ==
    (pc = "relaxed" /\ last.kind = "decide" /\ ~last.helpful /\ last.S >= last.R)
        => ~last.accept

\* A non-helpful candidate was rejected at S >= R by a policy that is past
\* its warmup and whose estimator is at its most optimistic.
C23_Witness ==
    /\ pc = "relaxed"
    /\ last.kind = "decide"
    /\ ~last.helpful
    /\ last.S >= last.R
    /\ last.R > 0
    /\ ~last.accept
    /\ \/ /\ policy.name = "window"
          /\ Len(policy.window_helpful) >= policy.min_observations
          /\ policy.risk_margin = RInt(0)
       \/ /\ policy.name = "ewma"
          /\ policy.n_obs >= policy.warmup_observations
          /\ policy.risk_margin = RInt(0)
          /\ last.before.p_hat = RInt(1)

\* The window-rate rule on the window as decide has left it:
\* h / n >= (S / R') * (1 + risk_margin), with R' = max(1, R - 1).
WindowRateRule(p, S, R) ==
    LET w == p.window_helpful
        h == Cardinality({i \in 1..Len(w) : w[i]})
        rate == IF Len(w) = 0 THEN RInt(0) ELSE Rat(h, Len(w))
    IN  RLe(RMul(Rat(S, Max(1, R - 1)), RAdd(RInt(1), p.risk_margin)), rate)

\* A non-helpful candidate above the safety floor, decided by the window
\* policy.
WindowRelaxedCase ==
    /\ pc = "relaxed"
    /\ policy.name = "window"
    /\ last.kind = "decide"
    /\ ~last.helpful
    /\ last.S < last.R

\* C24: WindowRelaxedPolicy applies the conservative rule (accept a
\* non-helpful candidate iff S < R - 1) exactly while fewer than
\* min_observations observations have been recorded in total, this one
\* included, and the window-rate rule from then on, for every window_size.
C24_WarmupByTotalObservations ==
    WindowRelaxedCase =>
        last.accept = IF arrivals < policy.min_observations
                      THEN last.S < last.R - 1
                      ELSE WindowRateRule(policy, last.S, last.R)

\* The same holds when the window can hold min_observations values.
C24_WarmupWhenWindowLargeEnough ==
    (WindowRelaxedCase /\ policy.window_size >= policy.min_observations) =>
        last.accept = IF arrivals < policy.min_observations
                      THEN last.S < last.R - 1
                      ELSE WindowRateRule(policy, last.S, last.R)

\* With a window smaller than min_observations the warmup never ends.
C24_WarmupForeverWhenWindowSmall ==
    (WindowRelaxedCase /\ policy.window_size < policy.min_observations) =>
        last.accept = (last.S < last.R - 1)

\* The decide call just made found the policy in its warmup: the estimator,
\* this candidate's observation included, holds fewer observations than the
\* threshold.
InWarmup ==
    \/ policy.name = "window" /\ Len(policy.window_helpful) < policy.min_observations
    \/ policy.name = "ewma" /\ policy.n_obs < policy.warmup_observations

\* A QuotaReservePolicy with the fields of p.
Baseline(p) ==
    [QuotaReservePolicy(p.min_counts, p.capacity) EXCEPT
        !.accepted_attribute_counts = p.accepted_attribute_counts]

\* C25: during warmup WindowRelaxedPolicy and EwmaRelaxedPolicy fall back to
\* the baseline: for the same min_counts, capacity, accepted counts,
\* admitted_count and candidate their decide returns what
\* QuotaReservePolicy.decide returns.
C25_WarmupEqualsBaseline ==
    (pc = "relaxed" /\ last.kind = "decide" /\ InWarmup) =>
        last.accept = quota_decide(Baseline(last.before), last.admitted_count,
                                   last.attributes)

\* During warmup the relaxed policies differ from the baseline exactly on a
\* non-helpful candidate at S = R - 1, which they reject and it accepts.
C25_WarmupStricterByOne ==
    (pc = "relaxed" /\ last.kind = "decide" /\ InWarmup) =>
        LET base == quota_decide(Baseline(last.before), last.admitted_count,
                                 last.attributes)
        IN  /\ last.accept => base
            /\ (last.accept # base) <=> (~last.helpful /\ last.S = last.R - 1)

(* ---------------- a window policy primed, then asked once -------------- *)

\* Observations recorded before the decision, the larger window size and
\* the capacity.
MaxWindowObservations == 4
LargeWindowSize == 5
WindowCapacity == 6

\* --risk-margin 0.5
HighRiskMargin == <<1, 2>>

WindowPolicies ==
    {WindowRelaxedPolicy(mc, WindowCapacity, ws, rm, mo) :
        mc \in SessionConstraintMaps, ws \in {0, WindowSize, LargeWindowSize},
        rm \in {RInt(0), HighRiskMargin}, mo \in {0, MinObservations}}

WindowInit ==
    /\ policy \in WindowPolicies
    /\ admitted = 0
    /\ arrivals = 0
    /\ last = NoCall
    /\ pc = "window"
    /\ resp = NoResponse
    /\ rejected = 0
    /\ step = 0
    /\ up = NoUpstream
    /\ log = << >>
    /\ log_interval = 0
    /\ resyncs = 0
    /\ recon = NoState
    /\ recon_runs = 0
    /\ live = NoPolicy
    /\ outcome = NoOutcome

\* record_observation(helpful): the estimator is primed from earlier arrivals.
WindowRecordObservation ==
    /\ pc = "window"
    /\ arrivals < MaxWindowObservations
    /\ \E helpful \in BOOLEAN :
          /\ last' = RelaxedCall("record_observation", policy, 0, {}, helpful, FALSE)
          /\ policy' = window_record_window(policy, helpful)
    /\ arrivals' = arrivals + 1
    /\ UNCHANGED <<admitted, pc, step, resp, rejected, up, log, log_interval, resyncs,
                   recon, recon_runs, live, outcome>>

\* decide(admitted_count, attributes) on the primed policy.
WindowDecide ==
    /\ pc = "window"
    /\ \E attributes \in AttrVectors, admitted_count \in 0..policy.capacity :
          LET d == window_decide(policy, admitted_count, attributes)
          IN  /\ last' = RelaxedCall("decide", policy, admitted_count, attributes,
                                     IsHelpful(policy, attributes), d.accept)
              /\ policy' = d.policy
    /\ pc' = "decided"
    /\ step' = step + 1
    /\ arrivals' = arrivals + 1
    /\ UNCHANGED <<admitted, resp, rejected, up, log, log_interval, resyncs,
                   recon, recon_runs, live, outcome>>

WindowNext == WindowRecordObservation \/ WindowDecide

SpecWindow == WindowInit /\ [][WindowNext]_vars

\* A non-helpful candidate with S < R decided by a window policy that is
\* past its warmup.
WindowRateCase ==
    /\ pc = "decided"
    /\ last.kind = "decide"
    /\ ~last.helpful
    /\ last.S < last.R
    /\ Len(policy.window_helpful) >= policy.min_observations

\* The two sides of the window-rate rule: h / n over the window as decide
\* left it (0 when empty), and (S / R') * (1 + risk_margin).
WindowRate(p) ==
    IF Len(p.window_helpful) = 0 THEN RInt(0)
    ELSE Rat(Cardinality({i \in 1..Len(p.window_helpful) : p.window_helpful[i]}),
             Len(p.window_helpful))

RequiredRate(p, S, R) == RMul(Rat(S, Max(1, R - 1)), RAdd(RInt(1), p.risk_margin))

\* C26: after warmup, for a non-helpful candidate with S < R,
\* WindowRelaxedPolicy accepts iff h / n >= (S / R') * (1 + risk_margin),
\* where R' = max(1, R - 1) and h / n is the fraction of helpful observations
\* in the window after this candidate's own (false) observation has been
\* appended; with an empty window the rate is 0.
C26_WindowRateRule ==
    WindowRateCase =>
        /\ policy.window_size > 0 =>
              /\ policy.window_helpful # << >>
              /\ ~policy.window_helpful[Len(policy.window_helpful)]
        /\ last.accept = RLe(RequiredRate(policy, last.S, last.R), WindowRate(policy))

\* The rule holds whenever the two sides are not equal.
C26_WindowRateRuleOffTheBoundary ==
    (WindowRateCase /\ WindowRate(policy) # RequiredRate(policy, last.S, last.R)) =>
        last.accept = RLe(RequiredRate(policy, last.S, last.R), WindowRate(policy))

(* ---------------- the window of WindowRelaxedPolicy -------------------- *)

\* The n most recent values of a sequence, in their order.
MostRecent(s, n) == SubSeq(s, Len(s) - n + 1, Len(s))

\* The latest call recorded an observation in the window of a window policy.
WindowObservationCase ==
    /\ policy.name = "window"
    /\ last.kind \in {"decide", "record_observation"}

\* C27: in WindowRelaxedPolicy, after any sequence of decide and
\* record_observation calls the window holds exactly the most recent
\* min(window_size, number of observations) helpfulness values in arrival
\* order: its length is that minimum and never exceeds window_size, and each
\* call leaves the values the window held followed by the new one, cut to the
\* most recent ones, so that the oldest value is the one evicted.
C27_WindowFifo ==
    policy.name = "window" =>
        /\ Len(policy.window_helpful) = Min(policy.window_size, arrivals)
        /\ Len(policy.window_helpful) <= policy.window_size
        /\ WindowObservationCase =>
              policy.window_helpful =
                  MostRecent(Append(last.before.window_helpful, last.helpful),
                             Min(policy.window_size, arrivals))
        /\ last.kind = "update_on_accept" =>
              policy.window_helpful = last.before.window_helpful

\* A full window took a value that differs from the one it evicted.
C27_Witness ==
    /\ WindowObservationCase
    /\ Len(last.before.window_helpful) = policy.window_size
    /\ arrivals > policy.window_size
    /\ last.before.window_helpful[1] # last.helpful
    /\ policy.window_helpful[Len(policy.window_helpful)] = last.helpful

(* ------------- the estimator update made by a decide call -------------- *)

RelaxedNames == {"window", "ewma", "attr-ewma"}

\* One update of the estimator of a relaxed policy with a candidate: its
\* helpfulness for Window and Global-EWMA, its attribute vector for
\* Attribute-EWMA.
EstimatorUpdate(p, attributes) ==
    CASE p.name = "window" -> window_record_window(p, IsHelpful(p, attributes))
      [] p.name = "ewma" -> ewma_update_p_hat(p, IsHelpful(p, attributes))
      [] p.name = "attr-ewma" -> attr_record_arrival(p, attributes)

\* The return path a decide call took, from what it saw and returned.
ReturnPath(p, call) ==
    IF call.R <= 0 /\ ~call.accept THEN "capacity exhausted"
    ELSE IF call.helpful /\ call.accept THEN "helpful accept"
    ELSE IF call.S >= call.R /\ ~call.accept THEN "safety floor"
    ELSE IF p.name = "window" /\ Len(p.window_helpful) < p.min_observations
         THEN "warmup"
    ELSE IF p.name # "window" /\ p.n_obs < p.warmup_observations THEN "warmup"
    ELSE "relaxed"

\* C28: every decide call on a relaxed policy updates its estimator exactly
\* once, on every return path: Window appends one observation (and keeps
\* the most recent window_size), Global-EWMA and Attribute-EWMA raise n_obs
\* by exactly 1; the policy decide leaves behind is the one update of the
\* policy it found, whether it returned true or false, and decide never
\* changes accepted_attribute_counts.
C28_DecideUpdatesEstimatorOnce ==
    [][(last'.kind = "decide" /\ policy.name \in RelaxedNames) =>
          /\ policy' = EstimatorUpdate(policy, last'.attributes)
          /\ policy'.accepted_attribute_counts = policy.accepted_attribute_counts
          /\ policy.name = "window" =>
                policy'.window_helpful =
                    MostRecent(Append(policy.window_helpful, last'.helpful),
                               Min(policy.window_size, Len(policy.window_helpful) + 1))
          /\ policy.name \in {"ewma", "attr-ewma"} =>
                policy'.n_obs = policy.n_obs + 1]_vars

\* The first call on an Attribute-EWMA policy was a decide that found the
\* capacity exhausted: it returned false and n_obs is 1.
C28_Witness ==
    /\ policy.name = "attr-ewma"
    /\ last.kind = "decide"
    /\ step = 1
    /\ ReturnPath(policy, last) = "capacity exhausted"
    /\ policy.n_obs = 1

(* ------------- record_observation against decide ----------------------- *)

\* The latest call was record_observation on a Window or Global-EWMA policy.
RecordObservationCase ==
    /\ last.kind = "record_observation"
    /\ policy.name \in {"window", "ewma"}

\* C29: for WindowRelaxedPolicy and EwmaRelaxedPolicy, record_observation(h)
\* leaves the policy exactly as decide leaves it for any candidate whose
\* helpfulness is h (whatever the admitted count), changes no accepted
\* count, and decide on the policy it leaves returns a boolean for every
\* input.
C29_RecordObservationAsDecide ==
    RecordObservationCase =>
        /\ \A attributes \in AttrVectors, admitted_count \in 0..(policy.capacity + 1) :
              IsHelpful(last.before, attributes) = last.helpful =>
                  decide(last.before, admitted_count, attributes).policy = policy
        /\ policy.accepted_attribute_counts = last.before.accepted_attribute_counts
        /\ \A attributes \in AttrVectors, admitted_count \in 0..(policy.capacity + 1) :
              decide(policy, admitted_count, attributes).accept \in BOOLEAN

\* The second of two calls recorded a helpful observation on a policy for
\* which some candidate is helpful, and changed the estimate.
C29_Witness ==
    /\ RecordObservationCase
    /\ step = 2
    /\ arrivals = 2
    /\ last.helpful
    /\ \E attributes \in AttrVectors : IsHelpful(last.before, attributes)
    /\ policy # last.before
    /\ policy.name = "ewma" => policy.p_hat # last.before.p_hat

(* ------------- the worst-case guard of AttributeEwmaPolicy ------------- *)

\* The latest call was a decide of an Attribute-EWMA policy that returned
\* true.
AttrAcceptCase ==
    /\ policy.name = "attr-ewma"
    /\ last.kind = "decide"
    /\ last.accept

\* Capacity left once the candidate of the latest call is counted.
SlotsAfterAccept == policy.capacity - last.admitted_count - 1

\* C30: AttributeEwmaPolicy.decide never returns true when, counting the
\* candidate as accepted, some attribute's remaining need exceeds the
\* capacity left after the accept, capacity - admitted_count - 1; this
\* holds for helpful and non-helpful candidates, during and after warmup,
\* so that once update_on_accept has counted the candidate every need is
\* within the capacity left.
C30_NeedWithinSlotsAfterAccept ==
    AttrAcceptCase =>
        /\ SlotsAfterAccept >= 0
        /\ \A a \in DOMAIN policy.min_counts :
              /\ PostNeed(policy, last.attributes, a) <= SlotsAfterAccept
              /\ remaining_needed(update_on_accept(policy, last.attributes))[a]
                     <= SlotsAfterAccept

\* A candidate was accepted with some need equal to the capacity left after
\* the accept.
C30_Witness ==
    /\ AttrAcceptCase
    /\ \E a \in DOMAIN policy.min_counts :
          /\ PostNeed(policy, last.attributes, a) > 0
          /\ PostNeed(policy, last.attributes, a) = SlotsAfterAccept

(* ------------- the warmup rule of AttributeEwmaPolicy ------------------ *)

\* The latest call was a decide of an Attribute-EWMA policy that passed the
\* capacity test and the worst-case guard.
AttrPastFloorCase ==
    /\ policy.name = "attr-ewma"
    /\ last.kind = "decide"
    /\ last.R > 0
    /\ \A a \in DOMAIN policy.min_counts :
          PostNeed(policy, last.attributes, a) <= last.R - 1

\* ... during warmup: n_obs, which counts this candidate, is below
\* warmup_observations.
AttrWarmupCase ==
    /\ AttrPastFloorCase
    /\ policy.n_obs < policy.warmup_observations

\* C31: during warmup (n_obs, counted including the current candidate, below
\* warmup_observations) and once the safety floor has passed,
\* AttributeEwmaPolicy accepts every helpful candidate and accepts a
\* non-helpful candidate iff the sum of pre-accept remaining_needed is
\* strictly less than R_post = capacity - admitted_count - 1.
C31_AttrWarmupRule ==
    AttrWarmupCase =>
        /\ last.helpful => last.accept
        /\ ~last.helpful => (last.accept <=> last.S < last.R - 1)

\* A non-helpful candidate was rejected in warmup with the sum of needs
\* equal to R_post and positive.
C31_Witness ==
    /\ AttrWarmupCase
    /\ ~last.helpful
    /\ ~last.accept
    /\ last.S = last.R - 1
    /\ last.S > 0

(* ------------- the expectation gate with no top-K gating --------------- *)

\* An arrival decided after warmup by an Attribute-EWMA policy whose
\* gate_top_k is left at its default, past the capacity test and the
\* worst-case guard.
UngatedCase ==
    /\ pc = "gate"
    /\ last.kind = "arrive"
    /\ last.decided.gate_top_k = GateTopK
    /\ last.decided.n_obs >= last.decided.warmup_observations
    /\ policy.capacity - last.admitted_count > 0
    /\ \A a \in DOMAIN policy.min_counts :
          PostNeed(last.decided, last.attributes, a)
              <= PostSlots(last.decided, last.admitted_count)

\* The attributes that stay underfilled after the accept and that the
\* candidate does not carry.
Uncovered == PostUnderfilled(last.decided, last.attributes) \ last.attributes

\* C32: with gate_top_k left at its default, after warmup
\* AttributeEwmaPolicy accepts a candidate only if every attribute that
\* stays underfilled after the accept and that the candidate does not carry
\* satisfies post-accept count + adjusted rate * R_post >=
\* minimum * (1 + margin_eff); no such attribute is skipped, and the
\* attributes the candidate carries are never a reason to reject: when all
\* the uncovered ones satisfy the check the candidate is accepted.
C32_UngatedExpectation ==
    UngatedCase =>
        (last.accept <=>
            \A a \in Uncovered :
                ExpectationMet(last.decided, last.admitted_count, last.attributes, a,
                               InflatedRate(last.decided, last.attributes, a)))

\* An accept with two attributes underfilled after it: one the candidate
\* does not carry, which satisfies the check, and one it carries.
C32_Witness ==
    /\ UngatedCase
    /\ last.accept
    /\ Uncovered # {}
    /\ PostUnderfilled(last.decided, last.attributes) \cap last.attributes # {}

(* ------------- records before the last start record -------------------- *)

\* The log from its last start record on.
FromLastStart(l) == SubSeq(l, LastStartIndex(l), Len(l))

\* _reconstruct_from_log has run on a log whose last start record is
\* preceded by records (JSON objects) and unparseable lines.
EarlierRecordsCase ==
    /\ pc = "reconstructed"
    /\ LastStartIndex(log) > 1
    /\ \A i \in 1..(LastStartIndex(log) - 1) : log[i] # NonObjectLine

\* C33: reconstruction uses only the most recent start record and the
\* records after it: every record that precedes the last start record
\* (requests and responses of an earlier session included) has no effect on
\* the reconstructed constraints, capacity, accepted counts, next_index or
\* prev_accept; the result, or the error, is that of the log cut at its last
\* start record.
C33_OnlyLastSession ==
    EarlierRecordsCase =>
        LET cut == reconstruct_from_log(FromLastStart(log))
        IN  /\ recon.ok = cut.ok
            /\ recon = cut
            /\ recon.ok =>
                  /\ recon.constraints = log[LastStartIndex(log)].constraints
                  /\ recon.capacity = log[LastStartIndex(log)].capacity
                  /\ recon.accepted_counts = cut.accepted_counts
                  /\ recon.next_index = cut.next_index
                  /\ recon.prev_accept = cut.prev_accept

\* An accepted request with attribute A precedes the last start record, and
\* the reconstruction counts no A and takes its index from the request that
\* follows the start record.
C33_Witness ==
    /\ EarlierRecordsCase
    /\ log[Len(log)].event = "request"
    /\ \E i \in 1..(LastStartIndex(log) - 1) :
          /\ log[i].event = "request"
          /\ log[i].accept
          /\ "A" \in log[i].decide_for_attrs
          /\ log[i].send_person_index # log[Len(log)].send_person_index
    /\ recon.ok
    /\ recon.accepted_counts["A"] = 0
    /\ recon.next_index = log[Len(log)].send_person_index

(* ------------- slack kept by the relaxed policies ---------------------- *)

\* A decide call of a Window or Global-EWMA policy made with the sum of
\* needs within the capacity left.
WithinSlackCase ==
    /\ pc = "relaxed"
    /\ last.kind = "decide"
    /\ last.S <= last.R

\* The policy once the decision is applied, and the capacity then left.
AfterDecision ==
    IF last.accept THEN update_on_accept(policy, last.attributes) ELSE policy

LeftAfterDecision == last.R - (IF last.accept THEN 1 ELSE 0)

\* C34: WindowRelaxedPolicy and EwmaRelaxedPolicy preserve
\* sum(remaining_needed) <= capacity - admitted_count across every decision,
\* whatever the estimator state and tunables are; so when the capacity is
\* reached every remaining_needed entry is 0.
C34_SlackPreserved ==
    WithinSlackCase =>
        /\ SumValues(remaining_needed(AfterDecision)) <= LeftAfterDecision
        /\ LeftAfterDecision = 0 =>
              \A a \in DOMAIN policy.min_counts : remaining_needed(AfterDecision)[a] = 0

\* The last slot went to a helpful candidate that filled the last need.
C34_Witness ==
    /\ WithinSlackCase
    /\ last.accept
    /\ last.S = last.R
    /\ last.R = 1
    /\ SumValues(remaining_needed(AfterDecision)) = 0

(* ------------- decide with no slot left -------------------------------- *)

\* A decide call made with admitted_count >= capacity.
NoSlotCase ==
    /\ pc = "policy"
    /\ last.kind = "decide"
    /\ last.admitted_count >= policy.capacity

\* C35: no policy variant's decide returns true when admitted_count >=
\* capacity (no slot left), whether or not the candidate is helpful.
C35_NoAcceptWhenFull ==
    NoSlotCase => ~last.accept

\* With no slot left, decide returns true exactly for the helpful candidates
\* of Quota-Reserve, Window and Global-EWMA; Attribute-EWMA returns false.
C35_HelpfulAcceptedWhenFull ==
    NoSlotCase => (last.accept <=> (last.helpful /\ policy.name # "attr-ewma"))

(* ------------- a session with its upstream, interrupted and resumed ---- *)

\* Candidates the upstream hands out in a session, resumes of a session,
\* responses the transport loses in a session.
MaxSessPeople == 3
MaxResumes == 2
MaxLost == 1

\* Attribute vectors of the candidates, policies run.
SessVectors == SUBSET {"A"}
SessPolicyNames == {"reserve", "window"}

\* The upstream of a session: the index and attributes of the candidate it
\* waits a decision for, its counts, its status, and the decisions it has
\* applied, each with the candidate it was applied to.
SessUpstream(attributes) ==
    [index |-> 0, admitted |-> 0, rejected |-> 0, status |-> "running",
     attributes |-> attributes, applied |-> << >>]

\* The upstream applies a decision to the candidate it waits for and moves
\* to the next one (or ends the game).
SessApply(u, accept, status, attributes) ==
    [index |-> u.index + 1,
     admitted |-> IF accept THEN u.admitted + 1 ELSE u.admitted,
     rejected |-> IF accept THEN u.rejected ELSE u.rejected + 1,
     status |-> status,
     attributes |-> attributes,
     applied |-> Append(u.applied, [person |-> u.index, accept |-> accept])]

\* ApiClient.decide_and_next: the response object built from the upstream's
\* answer.
SessResponse(u) ==
    CASE u.status = "running" ->
            [status |-> "running", admittedCount |-> u.admitted,
             rejectedCount |-> u.rejected, personIndex |-> u.index,
             reason |-> "", attributes |-> u.attributes]
      [] u.status = "completed" ->
            [status |-> "completed", admittedCount |-> 0,
             rejectedCount |-> u.rejected, personIndex |-> Null,
             reason |-> "", attributes |-> {}]
      [] u.status = "failed" ->
            [status |-> "failed", admittedCount |-> 0,
             rejectedCount |-> 0, personIndex |-> Null,
             reason |-> "limit", attributes |-> {}]

\* The statuses the upstream may answer with after one more decision: the
\* game ends at the latest with the last candidate.
SessStatuses(u) ==
    IF u.index + 1 >= MaxSessPeople THEN {"completed", "failed"} ELSE Statuses

\* The index the upstream expects with the decision for the candidate it
\* waits for: the one the loop sends, personIndex + 1.
SessExpected(u) == u.index + 1

SessInit ==
    /\ \E policy_name \in SessPolicyNames :
          policy = MakePolicy(policy_name, [a \in {"A"} |-> SessionMin],
                              MaxSessionCapacity, RelativeFrequencies, EmptyDict)
    /\ log_interval \in {1, MaxLogInterval}
    /\ \E attributes \in SessVectors : up = SessUpstream(attributes)
    /\ admitted = 0
    /\ arrivals = 0
    /\ last = NoCall
    /\ pc = "session"
    /\ resp = NoResponse
    /\ rejected = 0
    /\ step = 0
    /\ log = << >>
    /\ resyncs = 0
    /\ recon = NoState
    /\ recon_runs = 0
    /\ live = NoPolicy
    /\ outcome = NoOutcome

\* run_game up to its loop: fetch the first candidate, write the start
\* record.
SessStart ==
    /\ pc = "session"
    /\ resp' = SessResponse(up)
    /\ log' = Append(log, StartRecord(Scenario, GameId, policy.capacity,
                                      policy.min_counts, RelativeFrequencies,
                                      Correlations))
    /\ pc' = "loop"
    /\ UNCHANGED <<policy, admitted, arrivals, last, rejected, step, up,
                   log_interval, resyncs, recon, recon_runs, live, outcome>>

\* The loop of run_game and of resume_game on a failed response.
SessFailed ==
    /\ pc = "loop"
    /\ resp.status = "failed"
    /\ log' = Append(log, FailedRecord(Scenario, resp.reason))
    /\ pc' = "failed"
    /\ outcome' = GameFailed(resp.reason)
    /\ UNCHANGED <<policy, admitted, arrivals, last, resp, rejected, step, up,
                   log_interval, resyncs, recon, recon_runs, live>>

\* A loop that takes the completed response for a failure.
SessCompleted_raises ==
    /\ pc = "loop"
    /\ resp.status = "completed"
    /\ log' = Append(log, FailedRecord(Scenario, resp.reason))
    /\ pc' = "failed"
    /\ outcome' = GameFailed(resp.reason)
    /\ UNCHANGED <<policy, admitted, arrivals, last, resp, rejected, step, up,
                   log_interval, resyncs, recon, recon_runs, live>>

\* The loop of run_game and of resume_game on a completed response.
SessCompleted ==
    /\ pc = "loop"
    /\ resp.status = "completed"
    /\ rejected' = resp.rejectedCount
    /\ log' = Append(log, CompletedRecord(Scenario, resp.rejectedCount,
                                          remaining_needed(policy)))
    /\ pc' = "returned"
    /\ outcome' = Returned(resp.rejectedCount, remaining_needed(policy))
    /\ UNCHANGED <<policy, admitted, arrivals, last, resp, step, up,
                   log_interval, resyncs, recon, recon_runs, live>>

\* jlogger.request in the loop: the request record joins the log.
RequestLogged_not_written(l, record) == l

RequestLogged(l, record) == Append(l, record)

\* One pass of the loop on a running response, up to the submit:
\* policy.decide for the candidate of the response, then the request record.
SessDecide ==
    /\ pc = "loop"
    /\ resp.status = "running"
    /\ LET d == decide(policy, resp.admittedCount, resp.attributes)
           next_index == resp.personIndex + 1
       IN  /\ policy' = d.policy
           /\ admitted' = resp.admittedCount
           /\ rejected' = resp.rejectedCount
           /\ log' = RequestLogged(log, RequestRecord(Scenario, next_index,
                                                     resp.personIndex,
                                                     resp.attributes, d.accept))
           /\ last' = [kind |-> "decide", person |-> resp.personIndex,
                       attributes |-> resp.attributes, accept |-> d.accept,
                       next_index |-> next_index]
           /\ arrivals' = arrivals + 1
           /\ pc' = "decided"
    /\ UNCHANGED <<resp, step, up, log_interval, resyncs, recon, recon_runs,
                   live, outcome>>

\* The rest of the pass: client.decide_and_next with the decision; on an
\* "Expected person" error the resync record and the same decision sent at
\* the expected index; update_on_accept; the step's records.  The error is
\* the one the upstream answers to the transport's repeat of a request whose
\* first answer was lost (ApiClient._get repeats the same GET).  The process
\* may also stop at the call, its request delivered or not.
SessSubmit ==
    /\ pc = "decided"
    /\ \E way \in {"answered", "repeated", "stopped"},
          delivered \in BOOLEAN,
          status1 \in SessStatuses(up), attributes1 \in SessVectors,
          attributes2 \in SessVectors :
          LET accept == last.accept
              u1 == SessApply(up, accept, status1, attributes1)
              status2 == IF u1.index + 1 >= MaxSessPeople THEN "completed"
                         ELSE "running"
              u2 == SessApply(u1, accept, status2, attributes2)
              new_up == IF way = "repeated" THEN u2 ELSE u1
              new_resp == SessResponse(new_up)
              resync == IF way = "repeated"
                        THEN <<ResyncRecord(Scenario, SessExpected(u1),
                                            last.next_index)>>
                        ELSE << >>
              p == IF accept THEN update_on_accept(policy, last.attributes)
                   ELSE policy
          IN  /\ last.next_index = SessExpected(up)
              /\ way = "repeated" => /\ resyncs < MaxLost
                                     /\ u1.status = "running"
                                     /\ delivered
              /\ way = "answered" => delivered
              /\ ~delivered => /\ status1 = "running"
                               /\ attributes1 = up.attributes
              /\ way # "repeated" => attributes2 = attributes1
              /\ resyncs' = IF way = "repeated" THEN resyncs + 1 ELSE resyncs
              /\ last' = [last EXCEPT !.kind = way]
              /\ IF way = "stopped"
                 THEN /\ up' = IF delivered THEN u1 ELSE up
                      /\ pc' = "killed"
                      /\ UNCHANGED <<policy, resp, step, log>>
                 ELSE /\ up' = new_up
                      /\ resp' = new_resp
                      /\ policy' = p
                      /\ step' = step + 1
                      /\ log' = log \o resync
                                    \o StepLog(step + 1, admitted, rejected,
                                               new_resp, p, accept, last.person)
                      /\ pc' = "loop"
    /\ UNCHANGED <<admitted, arrivals, rejected, log_interval, recon,
                   recon_runs, live, outcome>>

\* The process is stopped between two passes of the loop.
SessKill ==
    /\ pc = "loop"
    /\ resp.status = "running"
    /\ pc' = "killed"
    /\ last' = [kind |-> "kill"]
    /\ UNCHANGED <<policy, admitted, arrivals, resp, rejected, step, up, log,
                   log_interval, resyncs, recon, recon_runs, live, outcome>>

\* resume_game up to its loop, on the log of the stopped run: reconstruct,
\* build and replay the policy, write the start record of the resumed run,
\* send the last decision of the log at the reconstructed index (once more
\* at the expected index on an "Expected person" error).
SessResume ==
    /\ pc = "killed"
    /\ recon_runs < MaxResumes
    /\ recon' = reconstruct_from_log(log)
    /\ recon_runs' = recon_runs + 1
    /\ live' = policy
    /\ IF ~recon'.ok
       THEN /\ pc' = "resume-error"
            /\ last' = [kind |-> "resume-error"]
            /\ outcome' = Raised("RuntimeError", recon'.error)
            /\ UNCHANGED <<policy, resp, up, log, resyncs, step>>
       ELSE \E status \in SessStatuses(up), attributes \in SessVectors :
               LET state == recon'
                   start == StartRecord(state.scenario, state.game_id,
                                        state.capacity, state.constraints,
                                        EmptyDict, EmptyDict)
                   mismatch == /\ up.status = "running"
                               /\ state.next_index # SessExpected(up)
                   resync == IF mismatch
                             THEN <<ResyncRecord(state.scenario, SessExpected(up),
                                                 state.next_index)>>
                             ELSE << >>
                   new_up == IF up.status = "running"
                             THEN SessApply(up, state.prev_accept, status, attributes)
                             ELSE up
               IN  /\ up.status # "running" => /\ status = up.status
                                               /\ attributes = up.attributes
                   /\ policy' = resume_policy(policy.name, state)
                   /\ last' = [kind |-> "resume", accept |-> state.prev_accept,
                               next_index |-> state.next_index,
                               mismatch |-> mismatch]
                   /\ log' = log \o <<start>> \o resync
                   /\ up' = new_up
                   /\ resp' = SessResponse(new_up)
                   /\ step' = 0
                   /\ pc' = "loop"
                   /\ UNCHANGED <<resyncs, outcome>>
    /\ UNCHANGED <<admitted, arrivals, rejected, log_interval>>

SessNext ==
    \/ SessStart
    \/ SessFailed
    \/ SessCompleted
    \/ SessDecide
    \/ SessSubmit
    \/ SessKill
    \/ SessResume

SpecSession == SessInit /\ [][SessNext]_vars

(* ------------- C36: a decision reaches the candidate it was made for --- *)

\* The decisions decide has returned in the session, by candidate: the
\* request records of the log (of every run of the session, in order).
Decided(l, person, accept) ==
    \E i \in 1..Len(l) : /\ l[i].event = "request"
                         /\ l[i].decide_for_index = person
                         /\ l[i].accept = accept

\* C36: every accept/reject value the upstream has applied is the value
\* decide returned for the candidate it was applied to; no resubmission
\* after a resync, in the loop or at the first call of a resume, puts the
\* decision of one candidate on another.
C36_AppliedAsDecided ==
    \A k \in 1..Len(up.applied) :
        Decided(log, up.applied[k].person, up.applied[k].accept)

\* C36, resume alone: the decision the first call of a resume leaves at the
\* upstream is one decide returned for that candidate.
C36_ResumeAppliesAsDecided ==
    (pc = "loop" /\ last.kind = "resume" /\ up.applied # << >>)
        => Decided(log, up.applied[Len(up.applied)].person,
                   up.applied[Len(up.applied)].accept)

\* C36, what does hold: a pass of the loop whose call is answered at once
\* applies the decision to the candidate it was made for.
C36_AnsweredPassAppliesAsDecided ==
    (pc = "loop" /\ last.kind = "answered")
        => /\ up.applied[Len(up.applied)].person = last.person
           /\ up.applied[Len(up.applied)].accept = last.accept

(* ------------- C37: the log of a resumed run as a resume source -------- *)

\* The records of a session as one run would have written them: the first
\* start record, then every later record that is not a start record.
SingleRun(l) ==
    IF l = << >> THEN l
    ELSE <<l[1]>> \o SelectSeq(Tail(l), LAMBDA r : r.event # "start")

\* The session has returned a decision: some record of its log is a request.
HasRequest(l) == \E i \in 1..Len(l) : l[i].event = "request"

\* A resume has just handed over to the loop.
ResumedCase == pc = "loop" /\ last.kind = "resume"

\* C37: a resume from the log of a resumed run (its latest start record
\* onward) gives the policy state that a resume from the records of the
\* whole session gives, decisions from before the first interruption
\* included, and finds a resume point whenever the session has decided.
C37_ResumedLogSuffices ==
    /\ ResumedCase =>
          LET whole == reconstruct_from_log(SingleRun(log))
          IN  /\ whole.ok
              /\ policy = resume_policy(policy.name, whole)
    /\ pc = "resume-error" => ~HasRequest(log)

\* C37, what does hold: the first resume of a session gives that state.
C37_FirstResumeSuffices ==
    (ResumedCase /\ recon_runs = 1) =>
        LET whole == reconstruct_from_log(SingleRun(log))
        IN  /\ whole.ok
            /\ policy = resume_policy(policy.name, whole)

\* C37, what does hold: the first resume fails only on a log with no
\* request record.
C37_FirstResumeFindsPoint ==
    (pc = "resume-error" /\ recon_runs = 1) => ~HasRequest(log)

(* ------------- C38: the request record precedes the submission --------- *)

\* The place of the latest request record of a log that has one.
LatestRequest(l) ==
    CHOOSE i \in 1..Len(l) :
        /\ l[i].event = "request"
        /\ \A j \in (i + 1)..Len(l) : l[j].event # "request"

\* The log opens with a start record, so one precedes every request record.
StartPrecedesRequests ==
    \A i \in 1..Len(log) :
        log[i].event = "request" => log[1].event = "start"

\* Between decide and the submit of a pass, of the first run or of a
\* resumed one, the log ends with the request record of the decision.
RequestPrecedesSubmit ==
    pc = "decided" =>
        /\ log # << >>
        /\ log[Len(log)] = RequestRecord(Scenario, last.next_index, last.person,
                                          last.attributes, last.accept)

\* Every decision that reaches the upstream in a step is the one of the
\* latest request record the log held before the step.
AppliedWasRequested ==
    \A k \in (Len(up.applied) + 1)..Len(up'.applied) :
        /\ HasRequest(log)
        /\ up'.applied[k].accept = log[LatestRequest(log)].accept

SpecSessionLive ==
    /\ SessInit
    /\ [][SessNext]_vars
    /\ WF_vars(SessFailed)
    /\ WF_vars(SessCompleted)

\* The loop holds a completed, a failed response.
SeenCompleted == pc = "loop" /\ resp.status = "completed"
SeenFailed == pc = "loop" /\ resp.status = "failed"

\* run_game or resume_game has returned the rejected count of the response
\* and the policy's remaining needs; has raised with the upstream's reason.
HasReturned ==
    /\ pc = "returned"
    /\ outcome = Returned(resp.rejectedCount, remaining_needed(policy))
HasRaised ==
    /\ pc = "failed"
    /\ outcome = GameFailed(resp.reason)

\* No decide, no update_on_accept, no submit in a step.
NoFurtherCall ==
    /\ arrivals' = arrivals
    /\ policy' = policy
    /\ up' = up
    /\ resp' = resp

\* C39: once the upstream has reported completed or failed, run_game and
\* resume_game terminate, returning on completed and raising on failed, and
\* from the moment the terminal status is seen they make no decide,
\* update_on_accept or submit call.
C39_TerminatesOnTerminalStatus ==
    /\ SeenCompleted ~> HasReturned
    /\ SeenFailed ~> HasRaised
    /\ [][resp.status \in {"completed", "failed"} => NoFurtherCall]_vars

\* resume_game has returned on a completed response.
C39_Witness ==
    /\ HasReturned
    /\ recon_runs >= 1
    /\ resp.status = "completed"

====
